---- MODULE Spec2Model ----
(***************************************************************************)
(* A model of the circuit simulator's connectivity manager                 *)
(* (src/src/circuit_manager.h), of its DC analysis                         *)
(* (src/src/simulation/dc_analysis.cpp) and of its transient analysis      *)
(* (src/src/simulation/transient_analysis.cpp) and of its netlist parser   *)
(* (src/src/parser/spice_parser.cpp).                                      *)
(*                                                                         *)
(* Nine specifications share the module:                                    *)
(*   Spec      the connectivity manager driven by its public mutators;     *)
(*   SpecDC    one DCAnalysis object over a netlist drawn from DCCircuits; *)
(*   SpecTran  one TransientAnalysis object over a case of TranCases;      *)
(*   SpecParse one SPICEParser::parseFile over a file drawn from Files;    *)
(*   SpecGround the manager wiring a ring of resistors and grounding pins; *)
(*   SpecIds   the manager's mutators with createJunctionNode and clear;   *)
(*   SpecRotate one placed element under rotate90 and setRotation;         *)
(*   SpecSplit the manager drawing routed wires and splitting them;        *)
(*   SpecReparse parseFile called repeatedly on one SPICEParser.           *)
(***************************************************************************)
EXTENDS Integers, Sequences, FiniteSets, TLC

VARIABLES
    components,         \* CircuitManager::components
    wires,              \* CircuitManager::wires (each with the identity of its allocation)
    junctions,          \* CircuitManager::junctions
    component_counters, \* CircuitManager::component_counters
    used_nodes,         \* CircuitManager::used_nodes
    next_node_id,       \* CircuitManager::next_node_id
    next_wire,          \* number of Wire objects allocated so far (identity of the next one)
    last,               \* the last mutator call: its name, its return value, the nodes it merged
    calls,              \* number of connect calls made on the manager so far
    elements,           \* the element list an analysis borrows
    numNodes,           \* DCAnalysis::numNodes / TransientAnalysis::numNodes
    G,                  \* conductance matrix
    b,                  \* right-hand side
    x,                  \* solution vector
    x_prev,             \* TransientAnalysis::x_prev
    command,            \* the tokens of the .tran directive the settings were parsed from
    settings,           \* TransientAnalysis::settings
    currentTime,        \* local of TransientAnalysis::solve
    timeStep,           \* local of TransientAnalysis::solve
    results,            \* TransientAnalysis::results
    pc,                 \* position inside solve()
    gaussOk,            \* what gaussianElimination() returned, in call order
    solves,             \* number of solve() invocations on the analysis object
    lines,              \* SPICETokenizer::lines, each already tokenized
    current_line,       \* SPICETokenizer::current_line
    nodeMap,            \* SPICEParser::nodeMap
    diagnostics,        \* what the parser wrote to std::cerr / std::cout about a line
    analyses,           \* the analyses parseCommand constructed and solved, in order
    parses              \* number of parseFile calls made on the SPICEParser object

cmVars == <<components, wires, junctions, component_counters, used_nodes,
            next_node_id, next_wire, last, calls>>
anVars == <<elements, numNodes, G, b, x, x_prev, command, settings, currentTime,
            timeStep, results, pc, gaussOk, solves>>
psVars == <<lines, current_line, nodeMap, diagnostics, analyses, parses>>
vars == <<cmVars, anVars, psVars>>

(***************************************************************************)
(* Bounds of the model.                                                    *)
(***************************************************************************)
MaxCalls == 4
MaxSteps == 12
MaxSolves == 2

Range(s) == {s[i] : i \in 1..Len(s)}

Abs(n) == IF n < 0 THEN -n ELSE n

(***************************************************************************)
(* Device model: the component types the manager instantiates here, their  *)
(* pin offsets and the node ids their constructors give their pins.        *)
(***************************************************************************)
ComponentTypes == {"resistor", "ground"}

getComponentPrefix(type) ==
    IF type = "resistor" THEN "R"
    ELSE IF type = "ground" THEN "GND"
    ELSE "X"

\* Every position the editor hands to the manager is snapped to its grid
\* (base_grid_step), and the pins of the components modelled here sit on
\* that grid, so coordinates are held in grid steps: a coordinate c of the
\* model is the float 20 * c of the program.  The program's tolerances are
\* compared after scaling by GridStep.
GridStep == 20

\* Pin offsets relative to the component centre, in pin order (grid steps).
PinOffsets(type) ==
    IF type = "resistor" THEN << <<-1, 0>>, <<1, 0>> >>
    ELSE << <<0, 0>> >>

\* Node ids of the pins of a freshly constructed component.
InitialPins(type) ==
    IF type = "resistor" THEN <<-1, -1>>
    ELSE <<0>>

getPinCount(comp) == Len(comp.pins)

getNodeForPin(comp, pin_index) ==
    IF pin_index >= 0 /\ pin_index < Len(comp.pins)
    THEN comp.pins[pin_index + 1]
    ELSE -1

\* CircuitElement::setNodeForPin, the one every caller in the manager
\* reaches: the callers hold CircuitElement pointers and the method is not
\* virtual, so Ground::setNodeForPin is never the one that runs.
setNodeForPin(comp, pin_index, node_id) ==
    IF pin_index >= 0 /\ pin_index < Len(comp.pins)
    THEN [comp EXCEPT !.pins[pin_index + 1] = node_id]
    ELSE comp

getAbsolutePinPositions(comp) ==
    [i \in 1..Len(comp.pins) |->
        <<comp.x + PinOffsets(comp.type)[i][1], comp.y + PinOffsets(comp.type)[i][2]>>]

\* The k-th component of the circuit is placed in the k-th slot of a row.
SlotX(k) == 4 * (k - 1)

(***************************************************************************)
(* Wire                                                                    *)
(***************************************************************************)
\* A Wire object; component1/component2 are indices into components, 0 for
\* nullptr.  id is the identity of the allocation (the value of a Wire*).
Wire(id, comp1, p1, comp2, p2, node, path) ==
    [id |-> id, component1 |-> comp1, pin1 |-> p1, component2 |-> comp2,
     pin2 |-> p2, node_id |-> node, path_points |-> path]

getStartPos(comps, w) ==
    IF w.component1 # 0 /\ w.pin1 >= 0
          /\ w.pin1 < Len(comps[w.component1].pins)
    THEN getAbsolutePinPositions(comps[w.component1])[w.pin1 + 1]
    ELSE IF w.path_points # <<>> THEN w.path_points[1]
    ELSE <<0, 0>>

getEndPos(comps, w) ==
    IF w.component2 # 0 /\ w.pin2 >= 0
          /\ w.pin2 < Len(comps[w.component2].pins)
    THEN getAbsolutePinPositions(comps[w.component2])[w.pin2 + 1]
    ELSE IF w.path_points # <<>> THEN w.path_points[Len(w.path_points)]
    ELSE <<0, 0>>

getCompletePath(comps, w) ==
    LET s0 == IF w.component1 # 0 THEN <<getStartPos(comps, w)>> ELSE <<>>
        s1 == s0 \o w.path_points
        s2 == IF w.component2 # 0 THEN Append(s1, getEndPos(comps, w))
              ELSE IF w.path_points # <<>> /\ Len(s1) = 1
                   THEN Append(s1, w.path_points[Len(w.path_points)])
                   ELSE s1
    IN  IF Len(s2) >= 2 THEN s2
        ELSE IF Len(s2) = 1 THEN <<s2[1], s2[1]>>
        ELSE << <<0, 0>>, <<0, 0>> >>

(***************************************************************************)
(* Geometry helpers of CircuitManager                                      *)
(***************************************************************************)
\* isPointOnLineSegment with param = dot / len_sq kept exact: param < 0 is
\* dot < 0, param > 1 is dot > len_sq, and the squared distance to the
\* closest point is (A*A + B*B) - dot*dot / len_sq.
isPointOnLineSegment(px, py, x1, y1, x2, y2, tolerance) ==
    LET A == px - x1
        B == py - y1
        C == x2 - x1
        D == y2 - y1
        dot == A * C + B * D
        len_sq == C * C + D * D
    IN  IF len_sq = 0 THEN FALSE
        ELSE IF dot < 0 \/ dot > len_sq THEN FALSE
        ELSE GridStep * GridStep * ((A * A + B * B) * len_sq - dot * dot)
                <= tolerance * tolerance * len_sq

\* Largest r in lo..hi with r * r <= n.
RECURSIVE ISqrtIn(_, _, _)
ISqrtIn(n, lo, hi) ==
    IF lo >= hi THEN lo
    ELSE LET mid == (lo + hi + 1) \div 2
         IN  IF mid * mid <= n THEN ISqrtIn(n, mid, hi)
             ELSE ISqrtIn(n, lo, mid - 1)

\* std::sqrt, as an interval: sqrt(n) lies in [lo, hi] / SqrtScale, and
\* lo = hi exactly when n is a perfect square.
SqrtScale == 1000

Sqrt(n) ==
    LET r == ISqrtIn(n * SqrtScale * SqrtScale, 0, 46340)
    IN  IF r * r = n * SqrtScale * SqrtScale THEN [lo |-> r, hi |-> r]
        ELSE [lo |-> r, hi |-> r + 1]

\* sqrt(a1) + sqrt(a2) < sqrt(b1) + sqrt(b2), decided from the intervals;
\* undefined where the intervals cannot decide it.
SqrtSumLess(a1, a2, b1, b2) ==
    LET A == [lo |-> Sqrt(a1).lo + Sqrt(a2).lo, hi |-> Sqrt(a1).hi + Sqrt(a2).hi]
        B == [lo |-> Sqrt(b1).lo + Sqrt(b2).lo, hi |-> Sqrt(b1).hi + Sqrt(b2).hi]
        exact == A.lo = A.hi /\ B.lo = B.hi
    IN  IF {<<a1, a2>>, <<a2, a1>>} = {<<b1, b2>>, <<b2, b1>>} THEN FALSE
        ELSE IF exact THEN A.lo < B.lo
        ELSE CHOOSE less \in BOOLEAN :
                /\ less => A.hi <= B.lo
                /\ ~less => B.hi <= A.lo

SegmentTolerance == 8


(***************************************************************************)
(* CircuitManager.  The operators below take the manager's fields as a     *)
(* record m and return the fields after the call, with ret the value the   *)
(* call returns and losing/winner the pair of nodes a merge joined.        *)
(***************************************************************************)
Manager ==
    [components |-> components, wires |-> wires, junctions |-> junctions,
     component_counters |-> component_counters, used_nodes |-> used_nodes,
     next_node_id |-> next_node_id, next_wire |-> next_wire]

NoMerge == [losing |-> -1, winner |-> -1]

Outcome(op, m, ret, merge) == [op |-> op, m |-> m, ret |-> ret, merge |-> merge]

\* The loop "for every component, for every pin: if the pin is on
\* old_node, setNodeForPin(i, new_node)".
RelabelPins(comps, old_node, new_node) ==
    [k \in 1..Len(comps) |->
        [comps[k] EXCEPT !.pins =
            [i \in 1..Len(comps[k].pins) |->
                IF comps[k].pins[i] = old_node THEN new_node
                ELSE comps[k].pins[i]]]]

RelabelWires(ws, old_node, new_node) ==
    [k \in 1..Len(ws) |->
        IF ws[k].node_id = old_node THEN [ws[k] EXCEPT !.node_id = new_node]
        ELSE ws[k]]

RelabelJunctions(js, old_node, new_node) ==
    [k \in 1..Len(js) |->
        IF js[k].node_id = old_node THEN [js[k] EXCEPT !.node_id = new_node]
        ELSE js[k]]

mergeNodes(m, old_node, new_node) ==
    IF old_node = new_node THEN m
    ELSE [m EXCEPT
            !.components = RelabelPins(m.components, old_node, new_node),
            !.wires = RelabelWires(m.wires, old_node, new_node),
            !.used_nodes = (m.used_nodes \ {old_node}) \cup {new_node}]

\* groundNode prints wire->getDescription() for every wire it relabels, and
\* getDescription dereferences component1 and component2 without a null
\* test: on a wire that a junction split produced this is a null
\* dereference.
DescribesNullEndpoint(m, node_id) ==
    \E k \in 1..Len(m.wires) :
        /\ m.wires[k].node_id = node_id
        /\ (m.wires[k].component1 = 0 \/ m.wires[k].component2 = 0)

groundNode(m, node_id) ==
    IF node_id = 0 THEN m
    ELSE [m EXCEPT
            !.components = RelabelPins(m.components, node_id, 0),
            !.wires = RelabelWires(m.wires, node_id, 0),
            !.junctions = RelabelJunctions(m.junctions, node_id, 0),
            !.used_nodes = (m.used_nodes \ {node_id}) \cup {0}]

\* connectToGround without its test for a pin that is already on node 0.
connectToGroundAlways(m, component, pin, ground_symbol, ground_pin, path) ==
    IF component = 0 \/ ground_symbol = 0 THEN Outcome("connectToGround", m, FALSE, NoMerge)
    ELSE
    LET current_node == getNodeForPin(m.components[component], pin)
        m1 == IF current_node # -1 THEN groundNode(m, current_node)
              ELSE [m EXCEPT !.components[component] =
                        setNodeForPin(m.components[component], pin, 0)]
        m2 == [m1 EXCEPT !.components[ground_symbol] =
                        setNodeForPin(m1.components[ground_symbol], ground_pin, 0)]
        wire == Wire(m.next_wire, component, pin, ground_symbol, ground_pin, 0, path)
    IN  Outcome("connectToGround", [m2 EXCEPT !.wires = Append(m2.wires, wire),
                                !.next_wire = m.next_wire + 1],
                TRUE, [losing |-> current_node, winner |-> 0])

connectToGround(m, component, pin, ground_symbol, ground_pin, path) ==
    IF component = 0 \/ ground_symbol = 0 THEN Outcome("connectToGround", m, FALSE, NoMerge)
    ELSE
    LET current_node == getNodeForPin(m.components[component], pin)
        m1 == IF current_node # -1 THEN groundNode(m, current_node)
              ELSE [m EXCEPT !.components[component] =
                        setNodeForPin(m.components[component], pin, 0)]
        m2 == [m1 EXCEPT !.components[ground_symbol] =
                        setNodeForPin(m1.components[ground_symbol], ground_pin, 0)]
        wire == Wire(m.next_wire, component, pin, ground_symbol, ground_pin, 0, path)
    IN  IF current_node = 0 THEN Outcome("connectToGround", m, FALSE, NoMerge)
        ELSE Outcome("connectToGround", [m2 EXCEPT !.wires = Append(m2.wires, wire),
                                !.next_wire = m.next_wire + 1],
                     TRUE, [losing |-> current_node, winner |-> 0])

connectPins(m, comp1, pin1, comp2, pin2, path) ==
    IF comp1 = 0 \/ comp2 = 0 \/ comp1 = comp2 THEN Outcome("connectPins", m, FALSE, NoMerge)
    ELSE IF pin1 < 0 \/ pin1 >= getPinCount(m.components[comp1])
        THEN Outcome("connectPins", m, FALSE, NoMerge)
    ELSE IF pin2 < 0 \/ pin2 >= getPinCount(m.components[comp2])
        THEN Outcome("connectPins", m, FALSE, NoMerge)
    ELSE IF m.components[comp1].type = "ground"
        THEN connectToGround(m, comp2, pin2, comp1, pin1, path)
    ELSE IF m.components[comp2].type = "ground"
        THEN connectToGround(m, comp1, pin1, comp2, pin2, path)
    ELSE
    LET node1_id == getNodeForPin(m.components[comp1], pin1)
        node2_id == getNodeForPin(m.components[comp2], pin2)
        fresh == node1_id = -1 /\ node2_id = -1
        merging == node1_id # -1 /\ node2_id # -1 /\ node1_id # node2_id
        final_node_id ==
            IF fresh THEN m.next_node_id
            ELSE IF node1_id # -1 /\ node2_id = -1 THEN node1_id
            ELSE IF node1_id = -1 /\ node2_id # -1 THEN node2_id
            ELSE node1_id
        m1 == IF fresh
              THEN [m EXCEPT !.next_node_id = m.next_node_id + 1,
                             !.used_nodes = m.used_nodes \cup {m.next_node_id}]
              ELSE IF merging THEN mergeNodes(m, node2_id, node1_id)
              ELSE m
        m2 == [m1 EXCEPT !.components[comp1] =
                    setNodeForPin(m1.components[comp1], pin1, final_node_id)]
        m3 == [m2 EXCEPT !.components[comp2] =
                    setNodeForPin(m2.components[comp2], pin2, final_node_id)]
        wire == Wire(m.next_wire, comp1, pin1, comp2, pin2, final_node_id, path)
    IN  IF node1_id # -1 /\ node1_id = node2_id THEN Outcome("connectPins", m, FALSE, NoMerge)
        ELSE Outcome("connectPins", [m3 EXCEPT !.wires = Append(m3.wires, wire),
                                !.next_wire = m.next_wire + 1],
                     TRUE,
                     IF merging THEN [losing |-> node2_id, winner |-> node1_id]
                     ELSE NoMerge)


SubSeqOrEmpty(q, lo, hi) == IF lo > hi THEN <<>> ELSE SubSeq(q, lo, hi)

\* Squared distance between two points.
Dist2(p, q) == (p[1] - q[1]) * (p[1] - q[1]) + (p[2] - q[2]) * (p[2] - q[2])

\* STEP 1 of connectToWire: the segment (0-based) of existing_path that
\* passes the tolerance test and has the smallest summed distance to its
\* two ends, the first such on a tie; -1 when no segment passes.
SplitSegment(existing_path, junction_point) ==
    LET passing == {i \in 0..(Len(existing_path) - 2) :
                        isPointOnLineSegment(junction_point[1], junction_point[2],
                            existing_path[i + 1][1], existing_path[i + 1][2],
                            existing_path[i + 2][1], existing_path[i + 2][2],
                            SegmentTolerance)}
        less(i, k) ==
            SqrtSumLess(Dist2(junction_point, existing_path[i + 1]),
                        Dist2(junction_point, existing_path[i + 2]),
                        Dist2(junction_point, existing_path[k + 1]),
                        Dist2(junction_point, existing_path[k + 2]))
    IN  IF passing = {} THEN -1
        ELSE IF Cardinality(passing) = 1 THEN CHOOSE i \in passing : TRUE
        ELSE CHOOSE i \in passing :
                \A k \in passing \ {i} :
                    less(i, k) \/ (~less(k, i) /\ i < k)

\* STEP 5 of connectToWire: index of the first junction within two units
\* of the point, 0 when there is none.
FindJunctionNear(js, junction_point) ==
    LET near == {k \in 1..Len(js) :
                    GridStep * GridStep * Dist2(<<js[k].x, js[k].y>>, junction_point) < 4}
    IN  IF near = {} THEN 0 ELSE CHOOSE k \in near : \A l \in near : k <= l

Junction(node, px, py, ws) ==
    [node_id |-> node, x |-> px, y |-> py, connected_wires |-> ws]

RemoveAt(q, k) == SubSeqOrEmpty(q, 1, k - 1) \o SubSeqOrEmpty(q, k + 1, Len(q))

\* The final node taken from the wire alone, whatever the component is.
FinalNodeOfWire(m, component, existing_node) == existing_node

\* "Determine the final node for this connection".
FinalNode(m, component, existing_node) ==
    IF m.components[component].type = "ground" THEN 0
    ELSE IF existing_node = 0 THEN 0
    ELSE existing_node

\* "Handle grounding if needed": the relabelling loops written out inside
\* connectToWire.
GroundNetwork(m, existing_node, final_node) ==
    IF final_node = 0 /\ existing_node # 0
    THEN [m EXCEPT
            !.components = RelabelPins(m.components, existing_node, 0),
            !.wires = RelabelWires(m.wires, existing_node, 0),
            !.junctions = RelabelJunctions(m.junctions, existing_node, 0),
            !.used_nodes = (m.used_nodes \ {existing_node}) \cup {0}]
    ELSE m

\* "Set the component's pin to the final node".
SetPinToFinalNode(m, component, pin, final_node) ==
    [m EXCEPT !.components[component] =
        setNodeForPin(m.components[component], pin, final_node)]

MergeOf(existing_node, final_node) ==
    IF existing_node # final_node
    THEN [losing |-> existing_node, winner |-> final_node]
    ELSE NoMerge

\* STEP 2: the path up to the junction.
Path1(head, junction_point) ==
    IF head = <<>>
        \/ GridStep * Abs(head[Len(head)][1] - junction_point[1]) > 1
        \/ GridStep * Abs(head[Len(head)][2] - junction_point[2]) > 1
    THEN Append(head, junction_point)
    ELSE head

\* STEP 2: the path from the junction on.
Path2(existing_path, split_segment, junction_point) ==
    <<junction_point>>
        \o SubSeqOrEmpty(existing_path, split_segment + 2, Len(existing_path))

\* The interior points of a path.
Interior(path) ==
    IF Len(path) > 2 THEN SubSeq(path, 2, Len(path) - 1) ELSE <<>>

\* STEP 3: the wire from the original start to the junction.
Wire1(m, ew, final_node, path1, wire1_waypoints, junction_point) ==
    Wire(m.next_wire, ew.component1, ew.pin1, 0, -1, final_node,
         IF wire1_waypoints # <<>> \/ Len(path1) > 1
         THEN Append(wire1_waypoints, junction_point)
         ELSE wire1_waypoints)

\* STEP 3: the wire from the junction to the original end.
Wire2(m, ew, final_node, path2, junction_point) ==
    Wire(m.next_wire + 1, 0, -1, ew.component2, ew.pin2, final_node,
         <<junction_point>> \o Interior(path2))

\* STEP 4: the wire from the component pin to the junction.
JunctionWire(m, component, pin, final_node, junction_point) ==
    Wire(m.next_wire + 2, component, pin, 0, -1, final_node,
         IF GridStep * GridStep
                * Dist2(junction_point,
                        getAbsolutePinPositions(m.components[component])[pin + 1]) > 1
         THEN <<junction_point>> ELSE <<>>)

\* STEP 5 and STEP 8: the junction found or created, with its three wires.
UpdateJunctions(js, found, final_node, junction_point, incident) ==
    IF found # 0
    THEN [js EXCEPT ![found] =
            [@ EXCEPT !.node_id = final_node, !.connected_wires = incident]]
    ELSE Append(js, Junction(final_node, junction_point[1], junction_point[2],
                             incident))

\* STEPS 2 to 8, once a segment to split is found.
SplitWire(m, component, pin, existing_wire, junction_point, final_node, path1, path2) ==
    [m EXCEPT
        !.wires = RemoveAt(m.wires, existing_wire)
            \o << Wire1(m, m.wires[existing_wire], final_node, path1,
                        Interior(path1), junction_point),
                  Wire2(m, m.wires[existing_wire], final_node, path2, junction_point),
                  JunctionWire(m, component, pin, final_node, junction_point) >>,
        !.junctions = UpdateJunctions(m.junctions,
                        FindJunctionNear(m.junctions, junction_point),
                        final_node, junction_point,
                        <<m.next_wire, m.next_wire + 1, m.next_wire + 2>>),
        !.next_wire = m.next_wire + 3]

\* connectToWire after the pin is set: m2 is the manager at that point.
SplitAt(m2, component, pin, existing_wire, junction_point, final_node, existing_path, split_segment, merge) ==
    IF split_segment = -1 THEN Outcome("connectToWire", m2, FALSE, merge)
    ELSE Outcome("connectToWire",
                 SplitWire(m2, component, pin, existing_wire, junction_point,
                           final_node,
                           Path1(SubSeqOrEmpty(existing_path, 1, split_segment + 1),
                                 junction_point),
                           Path2(existing_path, split_segment, junction_point)),
                 TRUE, merge)

ConnectAtNode(m, component, pin, existing_wire, junction_point, existing_node, final_node, existing_path) ==
    SplitAt(SetPinToFinalNode(GroundNetwork(m, existing_node, final_node),
                              component, pin, final_node),
            component, pin, existing_wire, junction_point, final_node,
            existing_path, SplitSegment(existing_path, junction_point),
            MergeOf(existing_node, final_node))

\* existing_wire is the index in m.wires of the wire the pointer refers to,
\* 0 for nullptr.
connectToWire(m, component, pin, existing_wire, junction_x, junction_y) ==
    IF component = 0 \/ existing_wire = 0
    THEN Outcome("connectToWire", m, FALSE, NoMerge)
    ELSE ConnectAtNode(m, component, pin, existing_wire,
                       <<junction_x, junction_y>>,
                       m.wires[existing_wire].node_id,
                       FinalNode(m, component, m.wires[existing_wire].node_id),
                       getCompletePath(m.components, m.wires[existing_wire]))

addComponent(m, type, px, py) ==
    LET prefix == getComponentPrefix(type)
        n == m.component_counters[prefix] + 1
        component == [type |-> type, name |-> <<prefix, n>>, x |-> px, y |-> py,
                      pins |-> InitialPins(type)]
    IN  [m EXCEPT !.component_counters[prefix] = n,
                  !.components = Append(m.components, component)]


(***************************************************************************)
(* The connectivity manager as a state machine: one action per public      *)
(* mutator, with the arguments the editor can pass.                        *)
(***************************************************************************)
Prefixes == {getComponentPrefix(t) : t \in ComponentTypes}

PinInputs == 0..1

\* The components the editor places, in order, before any wire is drawn.
Roster == <<"resistor", "resistor", "ground">>

\* The second component of a connectPins call whose first is comp1: an
\* earlier component (or none, or comp1 itself), or a ground symbol.  The
\* two resistors are alike, so the calls left out are mirror images of
\* calls kept.
SecondComponents(m, comp1) ==
    (0..comp1) \cup {c \in 1..Len(m.components) : m.components[c].type = "ground"}

\* Points passed as a junction point: one on the row of the pins, one off
\* every wire.
JunctionPoints == {<<2, 0>>, <<2, 4>>}

ValidPin(m, c, p) == c # 0 /\ p >= 0 /\ p < getPinCount(m.components[c])

\* The wire paths passed to connectPins and connectToGround: the direct
\* connection, without waypoints.
Paths(m, c1, p1, c2, p2) == {<<>>}

IdleAnalysis ==
    /\ elements = <<>>
    /\ numNodes = 0
    /\ G = <<>>
    /\ b = <<>>
    /\ x = <<>>
    /\ x_prev = <<>>
    /\ command = <<>>
    /\ settings = <<>>
    /\ currentTime = <<>>
    /\ timeStep = 0
    /\ results = <<>>
    /\ pc = "idle"
    /\ gaussOk = <<>>
    /\ solves = 0

\* No netlist file is being parsed.
IdleParser ==
    /\ lines = <<>>
    /\ current_line = 0
    /\ nodeMap = <<>>
    /\ diagnostics = <<>>
    /\ analyses = <<>>
    /\ parses = 0

\* CircuitManager::CircuitManager
InitManager ==
    /\ components = <<>>
    /\ wires = <<>>
    /\ junctions = <<>>
    /\ component_counters = [p \in Prefixes |-> 0]
    /\ used_nodes = {0}
    /\ next_node_id = 1
    /\ next_wire = 1
    /\ last = [op |-> "new", ret |-> TRUE, losing |-> -1, winner |-> -1]
    /\ calls = 0

Init == InitManager /\ IdleAnalysis /\ IdleParser

Running == last.op # "crash"

\* A connect call is made.
Call ==
    /\ Running
    /\ Len(components) = Len(Roster)
    /\ calls < MaxCalls
    /\ calls' = calls + 1

Apply(o) ==
    /\ components' = o.m.components
    /\ wires' = o.m.wires
    /\ junctions' = o.m.junctions
    /\ component_counters' = o.m.component_counters
    /\ used_nodes' = o.m.used_nodes
    /\ next_node_id' = o.m.next_node_id
    /\ next_wire' = o.m.next_wire
    /\ last' = [op |-> o.op, ret |-> o.ret, losing |-> o.merge.losing,
                winner |-> o.merge.winner]
    /\ UNCHANGED <<anVars, psVars>>

\* The null dereference in groundNode ends the process.
Crash ==
    /\ last' = [op |-> "crash", ret |-> FALSE, losing |-> -1, winner |-> -1]
    /\ UNCHANGED <<components, wires, junctions, component_counters,
                   used_nodes, next_node_id, next_wire>>
    /\ UNCHANGED <<anVars, psVars>>

\* Whether connectToGround(component, pin, ...) reaches the null dereference.
GroundingDereferencesNull(m, component, pin) ==
    LET current_node == getNodeForPin(m.components[component], pin)
    IN  /\ current_node # 0
        /\ current_node # -1
        /\ DescribesNullEndpoint(m, current_node)

AddComponent ==
    /\ Running
    /\ Len(components) < Len(Roster)
    /\ UNCHANGED calls
    /\ Apply(Outcome("addComponent",
                     addComponent(Manager, Roster[Len(components) + 1],
                                  SlotX(Len(components) + 1), 0),
                     TRUE, NoMerge))

ConnectPins ==
    /\ Call
    /\ \E comp1 \in 0..Len(components) :
       \E comp2 \in SecondComponents(Manager, comp1) :
       \E pin1, pin2 \in PinInputs :
       \E path \in Paths(Manager, comp1, pin1, comp2, pin2) :
        LET viaGround ==
                /\ ValidPin(Manager, comp1, pin1)
                /\ ValidPin(Manager, comp2, pin2)
                /\ comp1 # comp2
                /\ \/ /\ components[comp1].type = "ground"
                      /\ GroundingDereferencesNull(Manager, comp2, pin2)
                   \/ /\ components[comp1].type # "ground"
                      /\ components[comp2].type = "ground"
                      /\ GroundingDereferencesNull(Manager, comp1, pin1)
        IN  \/ Apply(connectPins(Manager, comp1, pin1, comp2, pin2, path))
            \/ viaGround /\ Crash

ConnectToGround ==
    /\ Call
    /\ \E component, ground_symbol \in 1..Len(components) :
       \E pin \in 0..1 :
        /\ ValidPin(Manager, component, pin)
        /\ components[ground_symbol].type = "ground"
        /\ \E path \in Paths(Manager, component, pin, ground_symbol, 0) :
            \/ Apply(connectToGround(Manager, component, pin, ground_symbol, 0, path))
            \/ GroundingDereferencesNull(Manager, component, pin) /\ Crash

ConnectToWire ==
    /\ Call
    /\ \E component \in 0..Len(components) :
       \E existing_wire \in 0..Len(wires) :
       \E pin \in 0..1 :
       \E jp \in JunctionPoints :
        /\ component # 0 => ValidPin(Manager, component, pin)
        /\ Apply(connectToWire(Manager, component, pin, existing_wire, jp[1], jp[2]))

Next == AddComponent \/ ConnectPins \/ ConnectToGround \/ ConnectToWire

Spec == Init /\ [][Next]_vars


(***************************************************************************)
(* Properties of the connectivity manager.                                 *)
(***************************************************************************)
AllPinNodes ==
    UNION {Range(components[c].pins) : c \in 1..Len(components)}

\* C1 (I1): every wire's node_id equals the node id of the pin at each of
\* its component endpoints, after any sequence of connect_pins,
\* connect_to_ground and connect_to_wire calls.
C1_WireNodeEqualsEndpointPins ==
    \A k \in 1..Len(wires) :
        /\ wires[k].component1 # 0 =>
            getNodeForPin(components[wires[k].component1], wires[k].pin1)
                = wires[k].node_id
        /\ wires[k].component2 # 0 =>
            getNodeForPin(components[wires[k].component2], wires[k].pin2)
                = wires[k].node_id

\* C2 (I2): used_nodes is exactly {0} together with the node ids >= 1 that
\* some pin of some component carries.
C2_UsedNodesIsPinImage ==
    used_nodes = {0} \cup {n \in AllPinNodes : n >= 1}

\* C3: node id 0 is a member of used_nodes in every reachable state.
C3_GroundIdAlwaysUsed == 0 \in used_nodes

\* C4: the single pin of every ground component carries node id 0 in every
\* reachable state.
C4_GroundPinIsZero ==
    \A c \in 1..Len(components) :
        components[c].type = "ground" => components[c].pins[1] = 0

\* C5 (B1): when connect_pins joins two pins on different nodes, afterwards
\* no pin, wire or junction carries the losing id, every one that carried it
\* carries the surviving id, the losing id is not in used_nodes and is never
\* allocated again (next_node_id stays above it).
C5_MergeRelabelsEverything ==
    [][(last'.op = "connectPins" /\ last'.ret /\ last'.losing # -1
            /\ calls' = calls + 1)
        => /\ \A c \in 1..Len(components) : \A i \in 1..Len(components[c].pins) :
                /\ components'[c].pins[i] # last'.losing
                /\ components[c].pins[i] = last'.losing
                    => components'[c].pins[i] = last'.winner
           /\ \A k \in 1..Len(wires) :
                /\ wires'[k].node_id # last'.losing
                /\ wires[k].node_id = last'.losing
                    => wires'[k].node_id = last'.winner
           /\ \A k \in 1..Len(junctions) :
                /\ junctions'[k].node_id # last'.losing
                /\ junctions[k].node_id = last'.losing
                    => junctions'[k].node_id = last'.winner
           /\ last'.losing \notin used_nodes'
           /\ next_node_id' > last'.losing]_vars


(***************************************************************************)
(* The analyses.  A double is modelled by the rational it holds, a pair    *)
(* <<numerator, denominator>> in lowest terms with a positive denominator: *)
(* the circuits analysed below have solutions that the double arithmetic   *)
(* of the code produces without a rounding error in the reported digits.   *)
(***************************************************************************)
RECURSIVE GCD(_, _)
GCD(a, c) == IF c = 0 THEN a ELSE GCD(c, a % c)

ReduceBy(n, d, g) == IF d < 0 THEN <<(-n) \div g, (-d) \div g>> ELSE <<n \div g, d \div g>>

Real(n, d) == ReduceBy(n, d, GCD(Abs(n), Abs(d)))

Zero == <<0, 1>>

One == <<1, 1>>

Plus(p, q) == Real(p[1] * q[2] + q[1] * p[2], p[2] * q[2])

Neg(p) == <<-p[1], p[2]>>

Minus(p, q) == Plus(p, Neg(q))

Times(p, q) == Real(p[1] * q[1], p[2] * q[2])

Over(p, q) == Real(p[1] * q[2], p[2] * q[1])

\* std::abs(p) > std::abs(q)
AbsGreater(p, q) == Abs(p[1]) * q[2] > Abs(q[1]) * p[2]

Less(p, q) == p[1] * q[2] < q[1] * p[2]

\* const double EPSILON = 1e-12, as 1 / (1000000 * 1000000).
EPSILON == <<1, 1000000, 1000000>>

\* std::abs(p) < EPSILON
BelowEpsilon(p) ==
    Abs(p[1]) * EPSILON[1] <= ((p[2] - 1) \div EPSILON[2]) \div EPSILON[3]

Zeros(n) == [i \in 1..n |-> Zero]

ZeroMatrix(n) == [i \in 1..n |-> Zeros(n)]

\* The first letter of the element's name, lower case.
ElementType(e) == e.type

\* A circuit element as the analyses read it: its name, its two pin node
\* ids and its value (r, v or c).
Element(type, name, n1, n2, value) ==
    [type |-> type, name |-> name, n1 |-> n1, n2 |-> n2, value |-> value]

\* The constructor's count of the voltage sources among the first k elements.
RECURSIVE CountVoltageSources(_, _)
CountVoltageSources(elems, k) ==
    IF k = 0 THEN 0
    ELSE CountVoltageSources(elems, k - 1)
            + (IF ElementType(elems[k]) = "v" THEN 1 ELSE 0)

\* voltageSourceIndex[elems[k].name], 0-based.
voltageSourceIndex(elems, nodes, k) ==
    (nodes - 1) + CountVoltageSources(elems, k - 1)

matrixSize(elems, nodes) == (nodes - 1) + CountVoltageSources(elems, Len(elems))

\* row and col are 0-based, as in the code.
addMatrixEntry(GG, row, col, value) ==
    IF row >= 0 /\ row < Len(GG) /\ col >= 0 /\ col < Len(GG)
    THEN [GG EXCEPT ![row + 1][col + 1] = Plus(@, value)]
    ELSE GG

InNodeRange(idx, nodes) == idx >= 0 /\ idx < nodes - 1

\* "Both nodes are non-ground: standard resistor stamp", one half of it.
StampHalf(GG, nodes, idx1, idx2, conductance) ==
    IF InNodeRange(idx1, nodes)
    THEN IF InNodeRange(idx2, nodes)
         THEN addMatrixEntry(addMatrixEntry(GG, idx1, idx1, conductance),
                             idx1, idx2, Neg(conductance))
         ELSE addMatrixEntry(GG, idx1, idx1, conductance)
    ELSE GG

StampConductance(GG, nodes, n1, n2, conductance) ==
    IF n1 = 0 /\ n2 = 0 THEN GG
    ELSE IF n1 = 0
        THEN IF InNodeRange(n2 - 1, nodes)
             THEN addMatrixEntry(GG, n2 - 1, n2 - 1, conductance) ELSE GG
    ELSE IF n2 = 0
        THEN IF InNodeRange(n1 - 1, nodes)
             THEN addMatrixEntry(GG, n1 - 1, n1 - 1, conductance) ELSE GG
    ELSE StampHalf(StampHalf(GG, nodes, n1 - 1, n2 - 1, conductance),
                   nodes, n2 - 1, n1 - 1, conductance)

\* DCAnalysis::addResistor on the system sys = [G, b].
addResistor(sys, nodes, resistor) ==
    [sys EXCEPT !.G = StampConductance(sys.G, nodes, resistor.n1, resistor.n2,
                                       Over(One, resistor.value))]

\* The two entries a voltage source adds for one of its nodes.
StampSourceNode(GG, nodes, n, vsIndex, sign) ==
    IF n # 0 /\ InNodeRange(n - 1, nodes)
    THEN addMatrixEntry(addMatrixEntry(GG, n - 1, vsIndex, sign),
                        vsIndex, n - 1, sign)
    ELSE GG

\* addVoltageSource with the two terminals' signs exchanged.
addVoltageSourceReversed(sys, nodes, vsource, vsIndex) ==
    [G |-> StampSourceNode(StampSourceNode(sys.G, nodes, vsource.n1, vsIndex, Neg(One)),
                           nodes, vsource.n2, vsIndex, One),
     b |-> IF vsIndex >= 0 /\ vsIndex < Len(sys.b)
           THEN [sys.b EXCEPT ![vsIndex + 1] = vsource.value]
           ELSE sys.b]

\* DCAnalysis::addVoltageSource; vsIndex is the source's 0-based row.
addVoltageSource(sys, nodes, vsource, vsIndex) ==
    [G |-> StampSourceNode(StampSourceNode(sys.G, nodes, vsource.n1, vsIndex, One),
                           nodes, vsource.n2, vsIndex, Neg(One)),
     b |-> IF vsIndex >= 0 /\ vsIndex < Len(sys.b)
           THEN [sys.b EXCEPT ![vsIndex + 1] = vsource.value]
           ELSE sys.b]

\* DCAnalysis::addCapacitor: an open circuit, no stamp.
addCapacitor(sys, capacitor) == sys

\* The switch of buildMNAMatrix on the k-th element.
StampElement(sys, elems, nodes, k) ==
    IF ElementType(elems[k]) = "r" THEN addResistor(sys, nodes, elems[k])
    ELSE IF ElementType(elems[k]) = "v"
        THEN addVoltageSource(sys, nodes, elems[k], voltageSourceIndex(elems, nodes, k))
    ELSE IF ElementType(elems[k]) = "c" THEN addCapacitor(sys, elems[k])
    ELSE sys

RECURSIVE StampElements(_, _, _, _)
StampElements(sys, elems, nodes, k) ==
    IF k = 0 THEN sys
    ELSE StampElement(StampElements(sys, elems, nodes, k - 1), elems, nodes, k)

\* DCAnalysis::buildMNAMatrix: clear, then stamp every element in order.
buildMNAMatrix(elems, nodes) ==
    StampElements([G |-> ZeroMatrix(matrixSize(elems, nodes)),
                   b |-> Zeros(matrixSize(elems, nodes))],
                  elems, nodes, Len(elems))

\* "Find pivot": the first row from i on with the largest magnitude in
\* column i (rows and columns 0-based).
MaxRow(GG, i) ==
    CHOOSE maxRow \in i..(Len(GG) - 1) :
        \A k \in i..(Len(GG) - 1) :
            /\ ~AbsGreater(GG[k + 1][i + 1], GG[maxRow + 1][i + 1])
            /\ k < maxRow => AbsGreater(GG[maxRow + 1][i + 1], GG[k + 1][i + 1])

SwapEntries(q, i, k) == [q EXCEPT ![i + 1] = q[k + 1], ![k + 1] = q[i + 1]]

\* "Swap rows"
SwapRows(sys, i, maxRow) ==
    IF maxRow # i
    THEN [G |-> SwapEntries(sys.G, i, maxRow), b |-> SwapEntries(sys.b, i, maxRow)]
    ELSE sys

\* "Eliminate": row k > i loses factor times row i, from column i on.
EliminateRow(row, pivotRow, factor, i) ==
    [j \in 1..Len(row) |->
        IF j - 1 >= i THEN Minus(row[j], Times(factor, pivotRow[j])) ELSE row[j]]

Eliminate(sys, i) ==
    [G |-> [k \in 1..Len(sys.G) |->
                IF k - 1 > i
                THEN EliminateRow(sys.G[k], sys.G[i + 1],
                                  Over(sys.G[k][i + 1], sys.G[i + 1][i + 1]), i)
                ELSE sys.G[k]],
     b |-> [k \in 1..Len(sys.b) |->
                IF k - 1 > i
                THEN Minus(sys.b[k],
                           Times(Over(sys.G[k][i + 1], sys.G[i + 1][i + 1]),
                                 sys.b[i + 1]))
                ELSE sys.b[k]]]

\* "Forward elimination" from row i on: the system it leaves and whether
\* every pivot passed the test.
RECURSIVE ForwardFrom(_, _)
PivotAt(sys, i) ==
    IF BelowEpsilon(sys.G[i + 1][i + 1])
    THEN [ok |-> FALSE, G |-> sys.G, b |-> sys.b]
    ELSE ForwardFrom(Eliminate(sys, i), i + 1)

ForwardFrom(sys, i) ==
    IF i >= Len(sys.G) THEN [ok |-> TRUE, G |-> sys.G, b |-> sys.b]
    ELSE PivotAt(SwapRows(sys, i, MaxRow(sys.G, i)), i)

\* The inner loop of the back substitution: b[i] minus G[i][j] * x[j] for
\* the columns j > i (0-based), up to column last.
RECURSIVE RowResidual(_, _, _, _, _)
RowResidual(sys, xx, i, j, acc) ==
    IF j >= Len(xx) THEN acc
    ELSE RowResidual(sys, xx, i, j + 1,
                     Minus(acc, Times(sys.G[i + 1][j + 1], xx[j + 1])))

\* "Back substitution" from row i down to row 0.
RECURSIVE BackSubstitute(_, _, _)
BackSubstitute(sys, xx, i) ==
    IF i < 0 THEN xx
    ELSE BackSubstitute(sys,
            [xx EXCEPT ![i + 1] =
                Over(RowResidual(sys, xx, i, i + 1, sys.b[i + 1]),
                     sys.G[i + 1][i + 1])],
            i - 1)

\* gaussianElimination: on a pivot below EPSILON it returns false with x
\* as it was; otherwise x is the solution.
Eliminated(fwd, xx) ==
    IF fwd.ok
    THEN [ok |-> TRUE, G |-> fwd.G, b |-> fwd.b,
          x |-> BackSubstitute(fwd, xx, Len(xx) - 1)]
    ELSE [ok |-> FALSE, G |-> fwd.G, b |-> fwd.b, x |-> xx]

gaussianElimination(sys, xx) == Eliminated(ForwardFrom(sys, 0), xx)

\* DCAnalysis::solve on an analysis whose solution vector is xx: with no
\* equations it returns after building the matrix.
solve(elems, nodes, xx) ==
    IF matrixSize(elems, nodes) = 0
    THEN [ok |-> TRUE, G |-> <<>>, b |-> <<>>, x |-> xx]
    ELSE gaussianElimination(buildMNAMatrix(elems, nodes), xx)

\* DCAnalysis::getNodeVoltage on the solution vector xx.
getNodeVoltage(xx, nodes, node) ==
    IF node = 0 THEN Zero
    ELSE IF node > 0 /\ node < nodes /\ node - 1 < Len(xx) THEN xx[node]
    ELSE Zero

\* DCAnalysis::getVoltagSourceCurrent for the source named vsourceName.
getVoltagSourceCurrent(xx, elems, nodes, vsourceName) ==
    IF \E k \in 1..Len(elems) :
            /\ ElementType(elems[k]) = "v" /\ elems[k].name = vsourceName
            /\ voltageSourceIndex(elems, nodes, k) < Len(xx)
    THEN xx[voltageSourceIndex(elems, nodes,
                CHOOSE k \in 1..Len(elems) :
                    ElementType(elems[k]) = "v" /\ elems[k].name = vsourceName) + 1]
    ELSE Zero


(***************************************************************************)
(* Time is kept as the code keeps it, in IEEE-754 doubles: currentTime +=  *)
(* stepTime rounds, and the number of loop iterations depends on it.  A    *)
(* finite non-negative double is [m, e], standing for m * 2^e, with m the  *)
(* significand as a sequence of bits, least significant first, odd (or     *)
(* empty for 0.0) and at most 53 bits long.                                *)
(***************************************************************************)
SignificandBits == 53

RECURSIVE StripHigh(_)
StripHigh(S) ==
    IF S = <<>> THEN S
    ELSE IF S[Len(S)] = 1 THEN S
    ELSE StripHigh(SubSeq(S, 1, Len(S) - 1))

\* The number of zero bits at the low end of a non-zero S.
RECURSIVE LowZeros(_, _)
LowZeros(S, i) == IF S[i + 1] = 1 THEN i ELSE LowZeros(S, i + 1)

DropLow(S, k) == SubSeqOrEmpty(S, k + 1, Len(S))

DoubleOf(S, e, k) == [m |-> DropLow(S, k), e |-> e + k]

\* The double with significand bits S (high zeros already stripped).
Canonical(S, e) ==
    IF S = <<>> THEN [m |-> <<>>, e |-> 0] ELSE DoubleOf(S, e, LowZeros(S, 0))

ShiftLeft(S, k) == IF S = <<>> THEN S ELSE [i \in 1..k |-> 0] \o S

BitAt(S, i) == IF i <= Len(S) THEN S[i] ELSE 0

\* S + T + carry from bit i on, as bits.
RECURSIVE AddFrom(_, _, _, _)
AddFrom(S, T, i, carry) ==
    IF i > Len(S) /\ i > Len(T)
    THEN IF carry = 1 THEN <<1>> ELSE <<>>
    ELSE <<(BitAt(S, i) + BitAt(T, i) + carry) % 2>>
            \o AddFrom(S, T, i + 1, (BitAt(S, i) + BitAt(T, i) + carry) \div 2)

BitsAdd(S, T) == AddFrom(S, T, 1, 0)

\* S < T as numbers, for S and T without high zeros.
RECURSIVE LessFrom(_, _, _)
LessFrom(S, T, i) ==
    IF i = 0 THEN FALSE
    ELSE IF S[i] # T[i] THEN S[i] < T[i]
    ELSE LessFrom(S, T, i - 1)

BitsLess(S, T) ==
    \/ Len(S) < Len(T)
    \/ Len(S) = Len(T) /\ LessFrom(S, T, Len(S))

\* Round to nearest, ties to even: S without high zeros, longer than the
\* significand by drop bits.
RoundUp(S, drop) ==
    /\ S[drop] = 1
    /\ \/ \E i \in 1..(drop - 1) : S[i] = 1
       \/ S[drop + 1] = 1

RoundTo(S, e, drop) ==
    IF RoundUp(S, drop)
    THEN Canonical(StripHigh(BitsAdd(DropLow(S, drop), <<1>>)), e + drop)
    ELSE Canonical(StripHigh(DropLow(S, drop)), e + drop)

\* The double nearest to S * 2^e.
RoundD(S, e) ==
    IF Len(S) <= SignificandBits THEN Canonical(S, e)
    ELSE RoundTo(S, e, Len(S) - SignificandBits)

MinOf(i, j) == IF i < j THEN i ELSE j

\* The significand of d when its exponent is lowered to e.
AlignedTo(d, e) == ShiftLeft(d.m, d.e - e)

ZeroD == [m |-> <<>>, e |-> 0]

\* a + b in double arithmetic.
PlusD(a, c) ==
    IF a.m = <<>> THEN c
    ELSE IF c.m = <<>> THEN a
    ELSE RoundD(StripHigh(BitsAdd(AlignedTo(a, MinOf(a.e, c.e)),
                                  AlignedTo(c, MinOf(a.e, c.e)))),
                MinOf(a.e, c.e))

\* a < b
LessD(a, c) ==
    IF c.m = <<>> THEN FALSE
    ELSE IF a.m = <<>> THEN TRUE
    ELSE BitsLess(AlignedTo(a, MinOf(a.e, c.e)), AlignedTo(c, MinOf(a.e, c.e)))

\* S * T, summing T shifted to every set bit of S from bit i on.
RECURSIVE MulFrom(_, _, _)
MulFrom(S, T, i) ==
    IF i > Len(S) THEN <<>>
    ELSE IF S[i] = 1 THEN BitsAdd(ShiftLeft(T, i - 1), MulFrom(S, T, i + 1))
    ELSE MulFrom(S, T, i + 1)

\* a * b in double arithmetic.
TimesD(a, c) ==
    IF a.m = <<>> \/ c.m = <<>> THEN ZeroD
    ELSE IF Len(a.m) <= Len(c.m)
        THEN RoundD(StripHigh(MulFrom(a.m, c.m, 1)), a.e + c.e)
    ELSE RoundD(StripHigh(MulFrom(c.m, a.m, 1)), a.e + c.e)

\* Bit j (from 1, least significant) of the number written with the
\* hexadecimal digits h, most significant first.
HexBit(h, j) == (h[Len(h) - ((j - 1) \div 4)] \div (2 ^ ((j - 1) % 4))) % 2

\* The double written 0xh1.h2...hnp<p> in C's hexadecimal notation.
Hex(h, p) ==
    Canonical(StripHigh([j \in 1..(4 * Len(h)) |-> HexBit(h, j)]),
              p - 4 * (Len(h) - 1))

\* The double of a small integer n >= 0.
RECURSIVE IntBits(_)
IntBits(n) == IF n = 0 THEN <<>> ELSE <<n % 2>> \o IntBits(n \div 2)

IntD(n) == Canonical(IntBits(n), 0)

\* The value of the bits as a number (for significands of few bits).
RECURSIVE BitsValue(_, _)
BitsValue(S, i) ==
    IF i > Len(S) THEN 0 ELSE S[i] + 2 * BitsValue(S, i + 1)

\* The rational a double holds (for significands of few bits).
ToReal(d) ==
    IF d.e >= 0 THEN Real(BitsValue(d.m, 1) * (2 ^ d.e), 1)
    ELSE Real(BitsValue(d.m, 1), 2 ^ (-d.e))


(***************************************************************************)
(* DCAnalysis as a state machine: an analysis object constructed over a    *)
(* netlist, then solve().                                                  *)
(***************************************************************************)
Resistances == {<<1000, 1>>, <<2000, 1>>}

NodePairs == {<<1, 2>>, <<1, 0>>, <<2, 0>>}

\* The netlists analysed: three nodes, two resistors, and no source or one
\* 10 V source to ground.
SourceChoices ==
    {<<>>, <<Element("v", "V1", 2, 0, <<10, 1>>)>>,
           <<Element("v", "V1", 1, 0, <<10, 1>>)>>}

DCCircuits ==
    {[elements |-> src \o <<Element("r", "R1", p1[1], p1[2], r1),
                            Element("r", "R2", p2[1], p2[2], r2)>>,
      numNodes |-> 3] :
        src \in SourceChoices, p1 \in NodePairs, r1 \in Resistances,
        p2 \in NodePairs, r2 \in Resistances}

\* DCAnalysis::DCAnalysis
InitDC ==
    /\ InitManager
    /\ IdleParser
    /\ \E c \in DCCircuits :
        /\ elements = c.elements
        /\ numNodes = c.numNodes
        /\ G = ZeroMatrix(matrixSize(c.elements, c.numNodes))
        /\ b = Zeros(matrixSize(c.elements, c.numNodes))
        /\ x = Zeros(matrixSize(c.elements, c.numNodes))
    /\ x_prev = <<>>
    /\ command = <<>>
    /\ settings = <<>>
    /\ currentTime = <<>>
    /\ timeStep = 0
    /\ results = <<>>
    /\ pc = "constructed"
    /\ gaussOk = <<>>
    /\ solves = 0

\* The fields solve() leaves, given what it computed.
Solved(r) ==
    /\ G' = r.G
    /\ b' = r.b
    /\ x' = r.x
    /\ gaussOk' = <<r.ok>>

\* DCAnalysis::solve
DCSolve ==
    /\ pc = "constructed"
    /\ Solved(solve(elements, numNodes, x))
    /\ pc' = "solved"
    /\ solves' = solves + 1
    /\ UNCHANGED <<elements, numNodes, x_prev, command, settings, currentTime,
                   timeStep, results>>
    /\ UNCHANGED <<cmVars, psVars>>

NextDC == DCSolve

SpecDC == InitDC /\ [][NextDC]_vars


(***************************************************************************)
(* Properties of the DC analysis.                                          *)
(***************************************************************************)
\* The resistive divider: V1 of 10 V from node 2 to ground, R1 of 1 kOhm
\* between nodes 1 and 2, R2 of 1 kOhm between node 1 and ground.
Divider ==
    <<Element("v", "V1", 2, 0, <<10, 1>>),
      Element("r", "R1", 1, 2, <<1000, 1>>),
      Element("r", "R2", 1, 0, <<1000, 1>>)>>

\* C6: DC analysis of the resistive divider with numNodes = 3 succeeds and
\* yields V(1) = 5, V(2) = 10 and I(V1) = -0.005 A.
C6_DividerSolution ==
    (pc = "solved" /\ elements = Divider /\ numNodes = 3)
        => /\ gaussOk = <<TRUE>>
           /\ getNodeVoltage(x, numNodes, 1) = <<5, 1>>
           /\ getNodeVoltage(x, numNodes, 2) = <<10, 1>>
           /\ getVoltagSourceCurrent(x, elements, numNodes, "V1") = <<-1, 200>>

C6_DividerSolved ==
    /\ pc = "solved" /\ elements = Divider /\ numNodes = 3
    /\ solves = 1
    /\ x # Zeros(Len(x))

\* What a caller can read from an analysis after solve(): solve() returns
\* void, and the public getters give the node voltages and the source
\* currents.
CallerView(xx, elems, nodes) ==
    [voltages |-> [n \in 0..(nodes - 1) |-> getNodeVoltage(xx, nodes, n)],
     currents |-> [name \in {elems[k].name : k \in 1..Len(elems)} |->
                        getVoltagSourceCurrent(xx, elems, nodes, name)]]

\* What the caller reads after a first solve() of circuit c.
ViewAfterSolve(c) ==
    CallerView(solve(c.elements, c.numNodes,
                     Zeros(matrixSize(c.elements, c.numNodes))).x,
               c.elements, c.numNodes)

SolveSucceeds(c) ==
    solve(c.elements, c.numNodes, Zeros(matrixSize(c.elements, c.numNodes))).ok

\* C7: after a solve() that met a pivot below 1e-12 the caller can tell the
\* failure from a success: what the caller is handed differs from what any
\* successful analysis hands out.
C7_FailureDistinguishable ==
    (pc = "solved" /\ gaussOk = <<FALSE>>)
        => \A c \in DCCircuits :
                SolveSucceeds(c)
                    => ViewAfterSolve(c) # CallerView(x, elements, numNodes)


(***************************************************************************)
(* TransientAnalysis.  Its addResistor, addVoltageSource and               *)
(* gaussianElimination repeat those of DCAnalysis statement for statement  *)
(* ("Same stamp as DC analysis"); the operators above stand for both.      *)
(***************************************************************************)
\* v1_prev and v2_prev of addCapacitor: the previous voltage of node n.
PreviousVoltage(xp, n) ==
    IF n = 0 THEN Zero
    ELSE IF n >= 1 /\ n - 1 < Len(xp) THEN xp[n]
    ELSE Zero

\* getCapacitorEquivalentConductance: cap->c / settings.stepTime
getCapacitorEquivalentConductance(cap, stepTime) == Over(cap.value, ToReal(stepTime))

\* getCapacitorEquivalentCurrentSource
getCapacitorEquivalentCurrentSource(cap, stepTime, v_previous) ==
    Times(getCapacitorEquivalentConductance(cap, stepTime), v_previous)

\* b[idx] += value (idx 0-based)
AddToEntry(bb, idx, value) == [bb EXCEPT ![idx + 1] = Plus(@, value)]

\* One half of the capacitor stamp for two non-ground nodes.
CapacitorHalf(sys, nodes, idx1, idx2, equiv_conductance, current) ==
    IF InNodeRange(idx1, nodes)
    THEN [G |-> IF InNodeRange(idx2, nodes)
                THEN addMatrixEntry(addMatrixEntry(sys.G, idx1, idx1, equiv_conductance),
                                    idx1, idx2, Neg(equiv_conductance))
                ELSE addMatrixEntry(sys.G, idx1, idx1, equiv_conductance),
          b |-> AddToEntry(sys.b, idx1, current)]
    ELSE sys

\* One grounded end: the diagonal entry and the current source.
CapacitorToGround(sys, nodes, node_idx, equiv_conductance, current) ==
    IF InNodeRange(node_idx, nodes)
    THEN [G |-> addMatrixEntry(sys.G, node_idx, node_idx, equiv_conductance),
          b |-> AddToEntry(sys.b, node_idx, current)]
    ELSE sys

StampCapacitor(sys, nodes, n1, n2, equiv_conductance, equiv_current) ==
    IF n1 = 0 /\ n2 = 0 THEN sys
    ELSE IF n1 = 0
        THEN CapacitorToGround(sys, nodes, n2 - 1, equiv_conductance, equiv_current)
    ELSE IF n2 = 0
        THEN CapacitorToGround(sys, nodes, n1 - 1, equiv_conductance, Neg(equiv_current))
    ELSE CapacitorHalf(CapacitorHalf(sys, nodes, n1 - 1, n2 - 1, equiv_conductance,
                                     Neg(equiv_current)),
                       nodes, n2 - 1, n1 - 1, equiv_conductance, equiv_current)

\* TransientAnalysis::addCapacitor (backward Euler companion model)
TransientAnalysis_addCapacitor(sys, nodes, capacitor, xp, stepTime) ==
    StampCapacitor(sys, nodes, capacitor.n1, capacitor.n2,
        getCapacitorEquivalentConductance(capacitor, stepTime),
        getCapacitorEquivalentCurrentSource(capacitor, stepTime,
            Minus(PreviousVoltage(xp, capacitor.n1),
                  PreviousVoltage(xp, capacitor.n2))))

\* The switch of TransientAnalysis::buildMNAMatrix on the k-th element.
TransientStampElement(sys, elems, nodes, k, xp, stepTime) ==
    IF ElementType(elems[k]) = "r" THEN addResistor(sys, nodes, elems[k])
    ELSE IF ElementType(elems[k]) = "c"
        THEN TransientAnalysis_addCapacitor(sys, nodes, elems[k], xp, stepTime)
    ELSE IF ElementType(elems[k]) = "v"
        THEN addVoltageSource(sys, nodes, elems[k], voltageSourceIndex(elems, nodes, k))
    ELSE sys

RECURSIVE TransientStampElements(_, _, _, _, _, _)
TransientStampElements(sys, elems, nodes, k, xp, stepTime) ==
    IF k = 0 THEN sys
    ELSE TransientStampElement(
            TransientStampElements(sys, elems, nodes, k - 1, xp, stepTime),
            elems, nodes, k, xp, stepTime)

\* TransientAnalysis::buildMNAMatrix
TransientAnalysis_buildMNAMatrix(elems, nodes, xp, stepTime) ==
    TransientStampElements([G |-> ZeroMatrix(matrixSize(elems, nodes)),
                            b |-> Zeros(matrixSize(elems, nodes))],
                           elems, nodes, Len(elems), xp, stepTime)

\* The switch of initializeIC on the k-th element: resistors and voltage
\* sources only.
ICStampElement(sys, elems, nodes, k) ==
    IF ElementType(elems[k]) = "r" THEN addResistor(sys, nodes, elems[k])
    ELSE IF ElementType(elems[k]) = "v"
        THEN addVoltageSource(sys, nodes, elems[k], voltageSourceIndex(elems, nodes, k))
    ELSE sys

RECURSIVE ICStampElements(_, _, _, _)
ICStampElements(sys, elems, nodes, k) ==
    IF k = 0 THEN sys
    ELSE ICStampElement(ICStampElements(sys, elems, nodes, k - 1), elems, nodes, k)

\* TransientAnalysis::initializeIC up to its gaussianElimination() call;
\* the caller stores x into x_prev when it succeeded.
initializeIC(elems, nodes, xx) ==
    gaussianElimination(
        ICStampElements([G |-> ZeroMatrix(matrixSize(elems, nodes)),
                         b |-> Zeros(matrixSize(elems, nodes))],
                        elems, nodes, Len(elems)),
        xx)

VoltageSourceNames(elems) ==
    {elems[k].name : k \in {j \in 1..Len(elems) : ElementType(elems[j]) = "v"}}

\* The TimePoint saveTimePoint appends.
TimePoint(xx, elems, nodes, time) ==
    [time |-> time,
     nodeVoltages |-> [i \in 1..nodes |->
                        IF i = 1 THEN Zero
                        ELSE IF i - 2 < Len(xx) THEN xx[i - 1] ELSE Zero],
     branchCurrents |-> [name \in VoltageSourceNames(elems) |->
                            getVoltagSourceCurrent(xx, elems, nodes, name)]]

saveTimePoint(log, xx, elems, nodes, time) ==
    Append(log, TimePoint(xx, elems, nodes, time))


(***************************************************************************)
(* The .tran directive.  A token is [digits, suffix]: the text handed to   *)
(* std::stod and the engineering suffix parseValue strips before it.       *)
(***************************************************************************)
Token(digits, suffix) == [digits |-> digits, suffix |-> suffix]

\* The texts std::stod converts; on any other it throws invalid_argument.
Numerals == {"0", "1", "2", "3", "10", "0.5", "0.1"}

\* std::stod on a numeral.
stod(str) ==
    CASE str = "0" -> IntD(0)
      [] str = "1" -> IntD(1)
      [] str = "2" -> IntD(2)
      [] str = "3" -> IntD(3)
      [] str = "10" -> IntD(10)
      [] str = "0.5" -> Hex(<<1>>, -1)
      [] str = "0.1" -> Hex(<<1, 9, 9, 9, 9, 9, 9, 9, 9, 9, 9, 9, 9, 10>>, -4)

\* The multiplier literal of the suffix, as the double the compiler makes of
\* it: 1e-3 is 0x1.0624dd2f1a9fcp-10, 1e-6 is 0x1.0c6f7a0b5ed8dp-20, 1e-9 is
\* 0x1.12e0be826d695p-30, 1e-12 is 0x1.19799812dea11p-40, 1e-15 is
\* 0x1.203af9ee75616p-50 and 1e12 is 0x1.d1a94a2p+39.
multiplier(suffix) ==
    CASE suffix = "t" -> Hex(<<1, 13, 1, 10, 9, 4, 10, 2>>, 39)
      [] suffix = "g" -> IntD(1000000000)
      [] suffix = "meg" -> IntD(1000000)
      [] suffix = "k" -> IntD(1000)
      [] suffix = "m" -> Hex(<<1, 0, 6, 2, 4, 13, 13, 2, 15, 1, 10, 9, 15, 12>>, -10)
      [] suffix = "u" -> Hex(<<1, 0, 12, 6, 15, 7, 10, 0, 11, 5, 14, 13, 8, 13>>, -20)
      [] suffix = "n" -> Hex(<<1, 1, 2, 14, 0, 11, 14, 8, 2, 6, 13, 6, 9, 5>>, -30)
      [] suffix = "p" -> Hex(<<1, 1, 9, 7, 9, 9, 8, 1, 2, 13, 14, 10, 1, 1>>, -40)
      [] suffix = "f" -> Hex(<<1, 2, 0, 3, 10, 15, 9, 14, 14, 7, 5, 6, 1, 6>>, -50)
      [] OTHER -> IntD(1)

\* SPICEParser::parseValue
parseValue(valueStr) ==
    IF valueStr.digits = "" /\ valueStr.suffix = "" THEN ZeroD
    ELSE IF valueStr.digits \notin Numerals THEN ZeroD
    ELSE TimesD(stod(valueStr.digits), multiplier(valueStr.suffix))

\* The number a token denotes, exactly; <<0, 1>> for a text that is no
\* number.
DecimalDigits(str) ==
    CASE str = "0" -> <<0, 1>>
      [] str = "1" -> <<1, 1>>
      [] str = "2" -> <<2, 1>>
      [] str = "3" -> <<3, 1>>
      [] str = "10" -> <<10, 1>>
      [] str = "0.5" -> <<1, 2>>
      [] str = "0.1" -> <<1, 10>>
      [] OTHER -> <<0, 1>>

DecimalScale(suffix) ==
    CASE suffix = "u" -> <<1, 1000000>>
      [] suffix = "m" -> <<1, 1000>>
      [] OTHER -> <<1, 1>>

DecimalValue(valueStr) ==
    Times(DecimalDigits(valueStr.digits), DecimalScale(valueStr.suffix))

\* TransientSettings as parseCommand builds it from ".tran <step> <stop>".
TransientSettings(tokens) ==
    [stepTime |-> parseValue(tokens[1]),
     stopTime |-> parseValue(tokens[2]),
     startTime |-> ZeroD]

\* Directives whose step is a power of two.
DyadicCommands ==
    {<<Token("1", ""), Token("3", "")>>,
     <<Token("0.5", ""), Token("2", "")>>}

Commands ==
    DyadicCommands \cup
    {<<Token("1", "u"), Token("10", "u")>>,
     <<Token("1", "m"), Token("10", "m")>>,
     <<Token("0.1", ""), Token("1", "")>>,
     <<Token("1", ""), Token("0", "")>>,
     <<Token("0", ""), Token("1", "")>>,
     <<Token("abc", ""), Token("1", "")>>}

\* Netlists without a capacitor: the divider, and a resistor between two
\* nodes that nothing ties to ground.
ResistiveCircuits ==
    {[elements |-> <<Element("v", "V1", 2, 0, <<10, 1>>),
                     Element("r", "R1", 1, 2, <<1000, 1>>),
                     Element("r", "R2", 1, 0, <<1000, 1>>)>>,
      numNodes |-> 3],
     [elements |-> <<Element("r", "R1", 1, 2, <<1000, 1>>)>>, numNodes |-> 3]}

\* Netlists with a capacitor: the RC low-pass, and a capacitor whose node 2
\* touches nothing else.
CapacitiveCircuits ==
    {[elements |-> <<Element("v", "V1", 1, 0, <<5, 1>>),
                     Element("r", "R1", 1, 2, <<1, 1>>),
                     Element("c", "C1", 2, 0, <<1, 1>>)>>,
      numNodes |-> 3],
     [elements |-> <<Element("v", "V1", 1, 0, <<5, 1>>),
                     Element("r", "R1", 1, 0, <<1, 1>>),
                     Element("c", "C1", 2, 0, <<1, 1>>)>>,
      numNodes |-> 3]}

TranCases ==
    (ResistiveCircuits \X Commands) \cup (CapacitiveCircuits \X DyadicCommands)

\* TransientAnalysis::TransientAnalysis
InitTran ==
    /\ InitManager
    /\ IdleParser
    /\ \E case \in TranCases :
        /\ elements = case[1].elements
        /\ numNodes = case[1].numNodes
        /\ command = case[2]
        /\ settings = TransientSettings(case[2])
        /\ G = ZeroMatrix(matrixSize(case[1].elements, case[1].numNodes))
        /\ b = Zeros(matrixSize(case[1].elements, case[1].numNodes))
        /\ x = Zeros(matrixSize(case[1].elements, case[1].numNodes))
        /\ x_prev = Zeros(matrixSize(case[1].elements, case[1].numNodes))
    /\ currentTime = ZeroD
    /\ timeStep = 0
    /\ results = <<>>
    /\ pc = "constructed"
    /\ gaussOk = <<>>
    /\ solves = 0

\* solve() from its entry to the first test of the loop condition:
\* initializeIC(), currentTime = startTime, timeStep = 0, saveTimePoint.
EnterLoop(ic) ==
    /\ G' = ic.G
    /\ b' = ic.b
    /\ x' = ic.x
    /\ x_prev' = IF ic.ok THEN ic.x ELSE x_prev
    /\ gaussOk' = <<ic.ok>>
    /\ currentTime' = settings.startTime
    /\ timeStep' = 0
    /\ results' = saveTimePoint(results, ic.x, elements, numNodes, settings.startTime)
    /\ pc' = "loop"

TranSolve ==
    /\ pc \in {"constructed", "returned"}
    /\ solves < MaxSolves
    /\ solves' = solves + 1
    /\ EnterLoop(initializeIC(elements, numNodes, x))
    /\ UNCHANGED <<elements, numNodes, command, settings>>
    /\ UNCHANGED <<cmVars, psVars>>

\* One iteration of the loop body at time t, r being what
\* gaussianElimination left: on failure the loop breaks and solve() returns.
LoopBody(t, r) ==
    /\ currentTime' = t
    /\ timeStep' = timeStep + 1
    /\ G' = r.G
    /\ b' = r.b
    /\ x' = r.x
    /\ gaussOk' = Append(gaussOk, r.ok)
    /\ IF r.ok
       THEN /\ results' = saveTimePoint(results, r.x, elements, numNodes, t)
            /\ x_prev' = r.x
            /\ pc' = "loop"
       ELSE /\ UNCHANGED <<results, x_prev>>
            /\ pc' = "returned"

TranStep ==
    /\ pc = "loop"
    /\ LessD(currentTime, settings.stopTime)
    /\ timeStep < MaxSteps
    /\ LoopBody(PlusD(currentTime, settings.stepTime),
                gaussianElimination(
                    TransientAnalysis_buildMNAMatrix(elements, numNodes, x_prev,
                                                     settings.stepTime),
                    x))
    /\ UNCHANGED <<elements, numNodes, command, settings, solves>>
    /\ UNCHANGED <<cmVars, psVars>>

\* The loop condition fails: solve() prints the results and returns.
TranReturn ==
    /\ pc = "loop"
    /\ ~LessD(currentTime, settings.stopTime)
    /\ pc' = "returned"
    /\ UNCHANGED <<elements, numNodes, G, b, x, x_prev, command, settings,
                   currentTime, timeStep, results, gaussOk, solves>>
    /\ UNCHANGED <<cmVars, psVars>>

NextTran == TranSolve \/ TranStep \/ TranReturn

SpecTran == InitTran /\ [][NextTran]_vars


(***************************************************************************)
(* Properties of the transient analysis.                                   *)
(***************************************************************************)
\* The initial-condition solve of the current solve() failed.
InitialSolveFailed == Len(gaussOk) >= 1 /\ ~gaussOk[1]

\* C8: if the initial-condition DC solve of a transient run fails, the run
\* stops: no iteration of the step loop is executed, no time step is solved
\* and none is recorded after the failed initial solve.
C8_FailedInitialSolveStops ==
    InitialSolveFailed
        => /\ timeStep = 0
           /\ Len(gaussOk) = 1
           /\ solves = 1 => Len(results) <= 1

\* C9: the TimePoints of the result log are in strictly increasing time
\* order, whatever the settings and however often solve() was invoked.
C9_StrictlyIncreasingTimes ==
    \A i \in 1..(Len(results) - 1) :
        LessD(results[i].time, results[i + 1].time)

\* (stop - start) / step of the directive, start being 0.
SpanSteps(tokens) == Over(DecimalValue(tokens[2]), DecimalValue(tokens[1]))

\* The span of the directive is exactly k steps, k a positive integer.
ExactSpan(tokens) ==
    /\ DecimalValue(tokens[1])[1] > 0
    /\ SpanSteps(tokens)[2] = 1
    /\ SpanSteps(tokens)[1] >= 1

\* C10: a first run whose span is exactly k steps and whose solves all
\* succeed has recorded, when solve() returns, exactly k + 1 TimePoints,
\* the first at t = start and the last at t = stop.  The last time is a
\* sum of k rounded additions: it is compared with stop to within one step.
C10_ExactSpanRecordsKPlusOne ==
    (/\ pc = "returned"
     /\ solves = 1
     /\ \A i \in 1..Len(gaussOk) : gaussOk[i]
     /\ ExactSpan(command))
        => /\ Len(results) = SpanSteps(command)[1] + 1
           /\ results[1].time = settings.startTime
           /\ LessD(results[Len(results)].time,
                    PlusD(settings.stopTime, settings.stepTime))
           /\ LessD(settings.stopTime,
                    PlusD(results[Len(results)].time, settings.stepTime))

\* The RC charge circuit: V1 of 5 V from node 1 to ground, R1 between nodes
\* 1 and 2, C1 between node 2 and ground.
RCCharge ==
    /\ Len(elements) = 3
    /\ elements[1] = Element("v", "V1", 1, 0, <<5, 1>>)
    /\ ElementType(elements[2]) = "r" /\ elements[2].n1 = 1 /\ elements[2].n2 = 2
    /\ ElementType(elements[3]) = "c" /\ elements[3].n1 = 2 /\ elements[3].n2 = 0

\* C11: in the RC charge circuit with start = 0, the first TimePoint of the
\* transient run, at t = 0, records the capacitor node voltage V(2) = 0.
C11_FirstPointCapacitorAtZero ==
    (RCCharge /\ Len(results) >= 1)
        => /\ results[1].time = ZeroD
           /\ results[1].nodeVoltages[3] = Zero


(***************************************************************************)
(* The netlist parser (src/src/parser/spice_parser.cpp).  A std::string is *)
(* the sequence of its characters; a token list is a sequence of strings.  *)
(***************************************************************************)
UpperCase == <<"A", "B", "C", "D", "E", "F", "G", "H", "I", "J", "K", "L", "M",
               "N", "O", "P", "Q", "R", "S", "T", "U", "V", "W", "X", "Y", "Z">>
LowerCase == <<"a", "b", "c", "d", "e", "f", "g", "h", "i", "j", "k", "l", "m",
               "n", "o", "p", "q", "r", "s", "t", "u", "v", "w", "x", "y", "z">>

\* ::tolower on one character.
tolower(c) ==
    IF \E i \in 1..Len(UpperCase) : UpperCase[i] = c
    THEN LowerCase[CHOOSE i \in 1..Len(UpperCase) : UpperCase[i] = c]
    ELSE c

\* std::transform(s.begin(), s.end(), s.begin(), ::tolower)
ToLower(str) == [i \in 1..Len(str) |-> tolower(str[i])]

\* The characters of a string, written out.
RECURSIVE Text(_)
Text(str) == IF str = <<>> THEN "" ELSE str[1] \o Text(Tail(str))

\* str.pop_back()
PopBack(str) == SubSeq(str, 1, Len(str) - 1)

\* str.find(pattern) != std::string::npos
Contains(str, pattern) ==
    \E i \in 1..(Len(str) - Len(pattern) + 1) :
        SubSeq(str, i, i + Len(pattern) - 1) = pattern

\* The first half of parseValue: the text is folded to lower case and the
\* switch on its last character strips the engineering suffix.  The "meg"
\* test sits under case 'm', where the last character is never 'g'.
StripSuffix(valueStr) ==
    IF valueStr = <<>> THEN Token("", "")
    ELSE IF ToLower(valueStr)[Len(valueStr)] \in {"t", "g", "k", "u", "n", "p", "f"}
    THEN Token(Text(PopBack(ToLower(valueStr))), ToLower(valueStr)[Len(valueStr)])
    ELSE IF ToLower(valueStr)[Len(valueStr)] = "m"
    THEN IF /\ Len(valueStr) >= 3
            /\ SubSeq(ToLower(valueStr), Len(valueStr) - 2, Len(valueStr)) = <<"m", "e", "g">>
         THEN Token(Text(SubSeq(ToLower(valueStr), 1, Len(valueStr) - 3)), "meg")
         ELSE Token(Text(PopBack(ToLower(valueStr))), "m")
    ELSE Token(Text(ToLower(valueStr)), "")

\* std::stod throws on the text parseValue hands it; parseValue catches the
\* exception, prints "Error parsing value" and returns 0.0.
StodThrows(valueStr) ==
    valueStr # <<>> /\ StripSuffix(valueStr).digits \notin Numerals

\* The parser's fields, with what it printed about a line and the analyses
\* it ran.
ParserState(elems, map, nodes, tran, diag, runs) ==
    [elements |-> elems, nodeMap |-> map, numNodes |-> nodes,
     transientSettings |-> tran, diagnostics |-> diag, analyses |-> runs]

\* A message on std::cerr or std::cout about line `at`.
Diagnose(ps, at, text) ==
    [ps EXCEPT !.diagnostics = Append(@, [line |-> at, text |-> text])]

\* SPICEParser::getNodeNumber: the parser afterwards, and the number.
getNodeNumber(ps, nodeName) ==
    IF Text(ToLower(nodeName)) \in DOMAIN ps.nodeMap
    THEN [ps |-> ps, node |-> ps.nodeMap[Text(ToLower(nodeName))]]
    ELSE [ps |-> [ps EXCEPT !.nodeMap = @ @@ (Text(ToLower(nodeName)) :> ps.numNodes),
                            !.numNodes = @ + 1],
          node |-> ps.numNodes]

\* parseValue as a component parser calls it: the value, and the message
\* of its catch block.
ValueParsed(ps, at, valueStr) ==
    [ps |-> IF StodThrows(valueStr)
            THEN Diagnose(ps, at, "Error parsing value") ELSE ps,
     value |-> parseValue(StripSuffix(valueStr))]

\* The tail the two-pin component parsers share: both node names are
\* mapped, then the element is made, its pins set and it is pushed back.
PushTwoPin(first, second, type, name, value) ==
    [second.ps EXCEPT !.elements =
        Append(@, Element(type, Text(name), first.node, second.node, value))]

AddTwoPin(ps, tokens, type, value) ==
    PushTwoPin(getNodeNumber(ps, tokens[2]),
               getNodeNumber(getNodeNumber(ps, tokens[2]).ps, tokens[3]),
               type, tokens[1], value)

\* SPICEParser::parseResistor
parseResistor(ps, tokens, at) ==
    IF Len(tokens) < 4 THEN Diagnose(ps, at, "Invalid resistor specification")
    ELSE AddTwoPin(ValueParsed(ps, at, tokens[4]).ps, tokens, "r",
                   ValueParsed(ps, at, tokens[4]).value)

\* SPICEParser::parseCapacitor, `value` being what tokens[3] read.
parseCapacitor(ps, tokens, at, value) ==
    AddTwoPin(ValueParsed(ps, at, value).ps, tokens, "c",
              ValueParsed(ps, at, value).value)

\* The token parseVoltageSource hands to parseValue.
VoltageToken(tokens) ==
    IF Len(tokens) >= 5 /\ tokens[4] \in {<<"D", "C">>, <<"d", "c">>}
    THEN tokens[5] ELSE tokens[4]

\* SPICEParser::parseVoltageSource; voltage stays 0.0 under four tokens.
parseVoltageSource(ps, tokens, at) ==
    IF Len(tokens) >= 4
    THEN AddTwoPin(ValueParsed(ps, at, VoltageToken(tokens)).ps, tokens, "v",
                   ValueParsed(ps, at, VoltageToken(tokens)).value)
    ELSE AddTwoPin(ps, tokens, "v", ZeroD)

\* SPICEParser::parseComponent, `value` being what tokens[3] read in
\* parseCapacitor.  The 'i' and 'm' cases hold nothing but a commented-out
\* call; parseInductor, parseDiode and parseMOSFET are called from nowhere.
parseComponent(ps, tokens, at, value) ==
    IF Len(tokens) < 3
    THEN Diagnose(ps, at, "Invalid component line (too few tokens)")
    ELSE CASE tolower(tokens[1][1]) = "r" -> parseResistor(ps, tokens, at)
           [] tolower(tokens[1][1]) = "c" -> parseCapacitor(ps, tokens, at, value)
           [] tolower(tokens[1][1]) = "v" -> parseVoltageSource(ps, tokens, at)
           [] tolower(tokens[1][1]) = "i" -> ps
           [] tolower(tokens[1][1]) = "m" -> ps
           [] OTHER -> Diagnose(ps, at, "Unknown component type")

\* parseCapacitor and parseVoltageSource copy tokens[3] into a std::string
\* before any test of tokens.size().
CopiesFourthToken(tokens) ==
    Len(tokens) >= 3 /\ tolower(tokens[1][1]) \in {"c", "v"}

\* What an out-of-bounds tokens[3] can hand to the copy: memory that holds
\* no string, or bytes that happen to read as one.
StrayTokens == {<<>>, <<"1">>, <<"x">>}

\* The outcomes of `std::string value = tokens[3]`.
FourthToken(tokens) ==
    IF ~CopiesFourthToken(tokens) THEN {[crash |-> FALSE, token |-> <<>>]}
    ELSE IF Len(tokens) >= 4 THEN {[crash |-> FALSE, token |-> tokens[4]]}
    ELSE {[crash |-> TRUE, token |-> <<>>]}
            \cup {[crash |-> FALSE, token |-> t] : t \in StrayTokens}

\* The messages of parseValue's catch block for the arguments from `from` on.
RECURSIVE DiagnoseValues(_, _, _, _)
DiagnoseValues(ps, at, tokens, from) ==
    IF from > Len(tokens) \/ from > 4 THEN ps
    ELSE DiagnoseValues(ValueParsed(ps, at, tokens[from]).ps, at, tokens, from + 1)

\* The TransientSettings parseCommand allocates for ".tran step stop [start]".
NewTransientSettings(tokens) ==
    [TransientSettings(<<StripSuffix(tokens[2]), StripSuffix(tokens[3])>>)
        EXCEPT !.startTime = IF Len(tokens) >= 4
                             THEN parseValue(StripSuffix(tokens[4])) ELSE ZeroD]

\* An analysis object is constructed over the elements, solved and dropped.
RunAnalysis(ps, at, kind) ==
    [ps EXCEPT !.analyses = Append(@, [line |-> at, kind |-> kind,
                                       elements |-> Len(ps.elements)])]

\* The ".tran" branch of parseCommand once the token count is accepted.
RunTransient(ps, tokens, at) ==
    IF ps.elements = <<>>
    THEN Diagnose([ps EXCEPT !.transientSettings = NewTransientSettings(tokens)],
                  at, "No circuit elements found. Cannot run transient analysis.")
    ELSE RunAnalysis([ps EXCEPT !.transientSettings = NewTransientSettings(tokens)],
                     at, "tran")

\* SPICEParser::parseCommand
parseCommand(ps, tokens, at) ==
    CASE ToLower(tokens[1]) = <<".", "e", "n", "d">> ->
            Diagnose(ps, at, "End of netlist reached.")
      [] ToLower(tokens[1]) = <<".", "t", "r", "a", "n">> ->
            IF Len(tokens) >= 3
            THEN RunTransient(DiagnoseValues(ps, at, tokens, 2), tokens, at)
            ELSE Diagnose(ps, at, "Invalid .tran command.")
      [] ToLower(tokens[1]) \in {<<".", "d", "c">>, <<".", "o", "p">>} ->
            IF ps.elements = <<>>
            THEN Diagnose(ps, at, "No circuit elements found. Cannot run DC analysis.")
            ELSE RunAnalysis(ps, at, "dc")
      [] OTHER -> Diagnose(ps, at, "Unknown command")


(***************************************************************************)
(* SPICEParser::parseFile over a file of at most MaxLines lines, each a    *)
(* line of LinePool as tokenizeLine splits it.                             *)
(***************************************************************************)
MaxLines == 3

LinePool ==
    {<<>>,
     <<<<"R", "1">>, <<"1">>, <<"2">>, <<"1", "k">>>>,
     <<<<"r", "2">>, <<"2">>, <<"0">>, <<"a", "b", "c">>>>,
     <<<<"R", "3">>, <<"1">>, <<"2">>, <<"k">>>>,
     <<<<"R", "4">>, <<"1">>, <<"2">>>>,
     <<<<"C", "1">>, <<"2">>, <<"0">>, <<"1", "u">>>>,
     <<<<"C", "2">>, <<"2">>, <<"0">>>>,
     <<<<"V", "1">>, <<"1">>, <<"0">>, <<"D", "C">>, <<"1", "0">>>>,
     <<<<"V", "2">>, <<"1">>, <<"0">>>>,
     <<<<"L", "1">>, <<"1">>, <<"2">>, <<"1", "m">>>>,
     <<<<"D", "1">>, <<"1">>, <<"2">>, <<"d", "m", "o", "d">>>>,
     <<<<"M", "1">>, <<"1">>, <<"2">>, <<"0">>, <<"0">>, <<"p", "m", "o", "s">>>>,
     <<<<"I", "1">>, <<"1">>, <<"0">>, <<"1">>>>,
     <<<<"X", "1">>, <<"1">>, <<"2">>, <<"3">>>>,
     <<<<".", "e", "n", "d">>>>,
     <<<<".", "o", "p">>>>,
     <<<<".", "d", "c">>>>,
     <<<<".", "D", "C">>, <<"V", "1">>, <<"0">>, <<"3">>, <<"1">>>>,
     <<<<".", "a", "c">>, <<"d", "e", "c">>>>,
     <<<<".", "t", "r", "a", "n">>, <<"1", "u">>, <<"1", "0", "u">>>>,
     <<<<".", "t", "r", "a", "n">>, <<"1", "u">>>>}

Files == UNION {[1..n -> LinePool] : n \in 0..MaxLines}

\* parseFile up to its loop: the file is loaded and node 0 gets its names.
InitParse ==
    /\ InitManager
    /\ lines \in Files
    /\ parses = 1
    /\ current_line = 0
    /\ nodeMap = [name \in {"0", "gnd", "ground"} |-> 0]
    /\ numNodes = 1
    /\ elements = <<>>
    /\ settings = <<>>
    /\ diagnostics = <<>>
    /\ analyses = <<>>
    /\ G = <<>>
    /\ b = <<>>
    /\ x = <<>>
    /\ x_prev = <<>>
    /\ command = <<>>
    /\ currentTime = <<>>
    /\ timeStep = 0
    /\ results = <<>>
    /\ pc = "parsing"
    /\ gaussOk = <<>>
    /\ solves = 0

\* The parser's fields in the current state.
Parser ==
    ParserState(elements, nodeMap, numNodes, settings, diagnostics, analyses)

\* The handler of the line returned, leaving the parser as ps.
Becomes(ps) ==
    /\ elements' = ps.elements
    /\ nodeMap' = ps.nodeMap
    /\ numNodes' = ps.numNodes
    /\ settings' = ps.transientSettings
    /\ diagnostics' = ps.diagnostics
    /\ analyses' = ps.analyses
    /\ pc' = "parsing"

\* tokenizer.getNextLine() and tokenizeLine(line) of one loop iteration.
NextLine ==
    /\ pc = "parsing"
    /\ current_line < Len(lines)
    /\ current_line' = current_line + 1
    /\ UNCHANGED <<lines, parses, G, b, x, x_prev, command, currentTime,
                   timeStep, results, gaussOk, solves>>
    /\ UNCHANGED cmVars

\* if (tokens.empty()) continue;
SkipLine ==
    /\ NextLine
    /\ lines[current_line + 1] = <<>>
    /\ Becomes(Parser)

\* tokens[0][0] == '.': parseCommand(tokens)
ParseCommand ==
    /\ NextLine
    /\ lines[current_line + 1] # <<>>
    /\ lines[current_line + 1][1][1] = "."
    /\ Becomes(parseCommand(Parser, lines[current_line + 1], current_line + 1))

\* otherwise: parseComponent(tokens)
ParseComponent ==
    /\ NextLine
    /\ lines[current_line + 1] # <<>>
    /\ lines[current_line + 1][1][1] # "."
    /\ \E read \in FourthToken(lines[current_line + 1]) :
        IF read.crash
        THEN /\ pc' = "crashed"
             /\ UNCHANGED <<elements, nodeMap, numNodes, settings, diagnostics,
                            analyses>>
        ELSE Becomes(parseComponent(Parser, lines[current_line + 1],
                                    current_line + 1, read.token))

\* hasMoreLines() is false: parseFile prints its summary and returns.
ParseFileReturn ==
    /\ pc = "parsing"
    /\ current_line = Len(lines)
    /\ pc' = "parsed"
    /\ UNCHANGED <<elements, numNodes, G, b, x, x_prev, command, settings,
                   currentTime, timeStep, results, gaussOk, solves>>
    /\ UNCHANGED <<cmVars, psVars>>

NextParse == SkipLine \/ ParseCommand \/ ParseComponent \/ ParseFileReturn

SpecParse == InitParse /\ [][NextParse]_vars


(***************************************************************************)
(* Properties of the parser.                                               *)
(***************************************************************************)
\* One iteration of parseFile's loop handles the next line of the file.
HandlesLine == pc = "parsing" /\ current_line' = current_line + 1

\* The line that iteration handles.
ThisLine == lines[current_line + 1]

IsDirective(tokens) == tokens # <<>> /\ tokens[1][1] = "."

IsComponent(tokens) == tokens # <<>> /\ tokens[1][1] # "."

\* The directive's name, case folded.
DirectiveIs(tokens, name) == IsDirective(tokens) /\ ToLower(tokens[1]) = name

\* The element type a component line asks for: the case-folded first
\* character of its name, a MOSFET being PMOS when its model says so.
MatchingType(tokens) ==
    IF tolower(tokens[1][1]) # "m" THEN tolower(tokens[1][1])
    ELSE IF \/ Contains(ToLower(tokens[6]), <<"p", "m", "o", "s">>)
            \/ Contains(ToLower(tokens[6]), <<"p", "f", "e", "t">>)
         THEN "pmos" ELSE "nmos"

\* A component line with every token its type needs.
Complete(tokens) ==
    /\ IsComponent(tokens)
    /\ Len(tokens) >= (IF tolower(tokens[1][1]) = "m" THEN 6 ELSE 4)

\* C12: a non-directive line adds one element of the type its case-folded
\* first character names (r, c, l, v, d, m); a line with any other first
\* character yields a warning and adds no element.
C12_DispatchOnFirstCharacter ==
    [][(HandlesLine /\ Complete(ThisLine))
        => IF tolower(ThisLine[1][1]) \in {"r", "c", "l", "v", "d", "m"}
           THEN /\ Len(elements') = Len(elements) + 1
                /\ elements'[Len(elements')].type = MatchingType(ThisLine)
           ELSE /\ elements' = elements
                /\ Len(diagnostics') = Len(diagnostics) + 1]_vars

\* A ".end" line has been handled.
EndSeen ==
    \E j \in 1..current_line : DirectiveIs(lines[j], <<".", "e", "n", "d">>)

\* C13: ".end" terminates parsing: a line that follows it adds no element
\* and starts no analysis.
C13_EndTerminatesParsing ==
    [][EndSeen => (elements' = elements /\ analyses' = analyses)]_vars

\* The DC operating-point solves among the analyses run.
DCSolves(runs) == Len(SelectSeq(runs, LAMBDA run : run.kind = "dc"))

\* ".op", or ".dc" without sweep arguments.
RequestsOperatingPoint(tokens) ==
    \/ DirectiveIs(tokens, <<".", "o", "p">>)
    \/ DirectiveIs(tokens, <<".", "d", "c">>) /\ Len(tokens) = 1

\* C14: with at least one element parsed, a directive runs the DC solve
\* exactly once when it is ".op" or ".dc" without sweep arguments, and not
\* at all otherwise (".dc src start stop step", ".ac", ".end", ...).
C14_OneDCSolvePerRequest ==
    [][(HandlesLine /\ IsDirective(ThisLine) /\ elements # <<>> /\ ~EndSeen)
        => DCSolves(analyses') =
              DCSolves(analyses)
                + (IF RequestsOperatingPoint(ThisLine) THEN 1 ELSE 0)]_vars

\* The text holds no number: it is empty or does not start like one.
HoldsNoNumber(valueStr) ==
    \/ valueStr = <<>>
    \/ valueStr[1] \notin {"0", "1", "2", "3", "4", "5", "6", "7", "8", "9",
                           "+", "-", "."}

\* C15: parseValue fails on a text that holds no number instead of
\* returning a value: no resistor is built from such a value token.
C15_UnparseableValueFails ==
    \A k \in 1..current_line :
        (/\ IsComponent(lines[k])
         /\ Len(lines[k]) >= 4
         /\ tolower(lines[k][1][1]) = "r"
         /\ HoldsNoNumber(lines[k][4]))
            => \A e \in 1..Len(elements) : elements[e].name # Text(lines[k][1])

\* A resistor, capacitor or voltage-source line of a name and two nodes.
LacksValue(tokens) ==
    /\ IsComponent(tokens)
    /\ Len(tokens) = 3
    /\ tolower(tokens[1][1]) \in {"r", "c", "v"}

\* C16: a component line without its value token produces a diagnostic,
\* adds no element, reads nothing out of bounds and parsing goes on with
\* the next line; ".tran" with fewer than two arguments produces a
\* diagnostic and starts no analysis.
C16_MalformedLineDiagnosed ==
    [][/\ (HandlesLine /\ LacksValue(ThisLine))
            => /\ pc' = "parsing"
               /\ elements' = elements
               /\ Len(diagnostics') = Len(diagnostics) + 1
       /\ (HandlesLine /\ DirectiveIs(ThisLine, <<".", "t", "r", "a", "n">>)
                       /\ Len(ThisLine) < 3)
            => /\ Len(diagnostics') = Len(diagnostics) + 1
               /\ analyses' = analyses]_vars


(***************************************************************************)
(* Further properties of the connectivity manager.                         *)
(***************************************************************************)
\* The step is the call whose outcome is o.
Returns(o) ==
    /\ calls' = calls + 1
    /\ components' = o.m.components
    /\ wires' = o.m.wires
    /\ junctions' = o.m.junctions
    /\ used_nodes' = o.m.used_nodes
    /\ next_node_id' = o.m.next_node_id
    /\ last'.op = o.op
    /\ last'.ret = o.ret

\* What a refusal leaves alone.
NothingChanged ==
    UNCHANGED <<components, wires, junctions, used_nodes, next_node_id>>

\* The two pins exist and already carry the same node id.
OnSameNode(comp1, pin1, comp2, pin2) ==
    /\ ValidPin(Manager, comp1, pin1)
    /\ ValidPin(Manager, comp2, pin2)
    /\ getNodeForPin(components[comp1], pin1) # -1
    /\ getNodeForPin(components[comp1], pin1)
            = getNodeForPin(components[comp2], pin2)

\* The arguments connect_pins refuses: a missing component, twice the same
\* component, a pin index out of range, two pins on the same node.
Refused(comp1, pin1, comp2, pin2) ==
    \/ comp1 = 0
    \/ comp2 = 0
    \/ comp1 = comp2
    \/ ~ValidPin(Manager, comp1, pin1)
    \/ ~ValidPin(Manager, comp2, pin2)
    \/ OnSameNode(comp1, pin1, comp2, pin2)

\* C17: connect_pins called with arguments it refuses returns false and
\* leaves every pin node id, the wires, the junctions, used_nodes and
\* next_node_id as they were.
C17_RefusalChangesNothing ==
    [][\A comp1, comp2 \in 0..Len(components) : \A pin1, pin2 \in PinInputs :
        (/\ Refused(comp1, pin1, comp2, pin2)
         /\ Returns(connectPins(Manager, comp1, pin1, comp2, pin2, <<>>)))
            => (~last'.ret /\ NothingChanged)]_vars


(***************************************************************************)
(* Grounding.  Five resistors and a ground symbol are placed; the editor   *)
(* wires pin 2 of each resistor to pin 1 of the next one round the ring,   *)
(* one resistor after the other, and grounds pins in between.  No wire is  *)
(* ever split here, so groundNode meets no wire without endpoints.         *)
(***************************************************************************)
MaxGroundings == 3

GroundRoster ==
    <<"resistor", "resistor", "resistor", "resistor", "resistor", "ground">>

\* The resistors of the ring.
Ring == {k \in 1..Len(GroundRoster) : GroundRoster[k] = "resistor"}

\* The resistor after resistor k round the ring.
Neighbour(k) == IF k + 1 \in Ring THEN k + 1 ELSE 1

\* The ground symbols placed.
GroundSymbols == {g \in 1..Len(components) : components[g].type = "ground"}

\* The components whose pins the editor grounds: the third and the fifth
\* resistor, and the ground symbol itself.
GroundedComponents == {3, 5, 6}

PlaceComponent ==
    /\ Len(components) < Len(GroundRoster)
    /\ UNCHANGED calls
    /\ Apply(Outcome("addComponent",
                     addComponent(Manager, GroundRoster[Len(components) + 1],
                                  SlotX(Len(components) + 1), 0),
                     TRUE, NoMerge))

\* The wires drawn between two neighbours of the ring so far.
RingWires == Len(SelectSeq(wires, LAMBDA w : w.component1 \in Ring
                                              /\ w.component2 \in Ring))

\* connectPins from pin 2 of the next resistor to pin 1 of its neighbour.
JoinNeighbours ==
    /\ Len(components) = Len(GroundRoster)
    /\ RingWires + 1 \in Ring
    /\ UNCHANGED calls
    /\ Apply(connectPins(Manager, RingWires + 1, 1, Neighbour(RingWires + 1), 0, <<>>))

\* The three ways the editor grounds a pin: connectToGround, or connectPins
\* with the ground symbol on either side.
Groundings(m, component, pin, ground_symbol) ==
    {connectToGround(m, component, pin, ground_symbol, 0, <<>>),
     connectPins(m, component, pin, ground_symbol, 0, <<>>),
     connectPins(m, ground_symbol, 0, component, pin, <<>>)}

GroundPin ==
    /\ Len(components) = Len(GroundRoster)
    /\ calls < MaxGroundings
    /\ calls' = calls + 1
    /\ \E component \in GroundedComponents : \E pin \in PinInputs :
       \E ground_symbol \in GroundSymbols :
        /\ ValidPin(Manager, component, pin)
        /\ \E o \in Groundings(Manager, component, pin, ground_symbol) : Apply(o)

NextGround == PlaceComponent \/ JoinNeighbours \/ GroundPin

SpecGround == Init /\ [][NextGround]_vars

\* The pin exists and is on node `node`.
PinOnNode(component, pin, node) ==
    /\ ValidPin(Manager, component, pin)
    /\ getNodeForPin(components[component], pin) = node

\* The step grounds the pin through a ground symbol, in one of the three ways.
Grounds(component, pin) ==
    \E ground_symbol \in GroundSymbols :
    \E o \in Groundings(Manager, component, pin, ground_symbol) : Returns(o)

\* C18: connect_to_ground, called directly or through connect_pins with a
\* ground component, on a pin whose node id is already 0 returns false and
\* changes nothing: no wire is appended and no pin, wire, junction or
\* used_nodes entry is modified, however often it is repeated.
C18_GroundingGroundedPinRefused ==
    [][\A component \in 1..Len(components) : \A pin \in PinInputs :
        (PinOnNode(component, pin, 0) /\ Grounds(component, pin))
            => (~last'.ret /\ NothingChanged)]_vars

\* A pin of a resistor is on node 0, the last two calls both tried to
\* ground something and were refused: one wire to ground, three calls.
C18_RefusedTwice ==
    /\ calls = 3
    /\ last.op = "connectToGround"
    /\ ~last.ret
    /\ Len(SelectSeq(wires, LAMBDA w : w.component2 \in GroundSymbols
                                        \/ w.component1 \in GroundSymbols)) = 1
    /\ \E component \in Ring : \E pin \in PinInputs :
        PinOnNode(component, pin, 0)

\* No other pin than the two is on node `node`.
HoldsNoOtherPin(node, c1, p1, c2, p2) ==
    \A c \in 1..Len(components) : \A p \in PinInputs :
        PinOnNode(c, p, node) => (<<c, p>> \in {<<c1, p1>>, <<c2, p2>>})

\* C19: with one pin on node 3 and another on node 5, grounding either pin
\* through a ground component leaves both pins on node 0 and removes 3 and 5
\* from used_nodes when those ids held no other pins.
C19_GroundingEitherGroundsBoth ==
    [][\A c1, c2 \in 1..Len(components) : \A p1, p2 \in PinInputs :
        (/\ PinOnNode(c1, p1, 3)
         /\ PinOnNode(c2, p2, 5)
         /\ (Grounds(c1, p1) \/ Grounds(c2, p2)))
            => /\ getNodeForPin(components'[c1], p1) = 0
               /\ getNodeForPin(components'[c2], p2) = 0
               /\ HoldsNoOtherPin(3, c1, p1, c2, p2) => 3 \notin used_nodes'
               /\ HoldsNoOtherPin(5, c1, p1, c2, p2) => 5 \notin used_nodes']_vars


(***************************************************************************)
(* Node id allocation.  The mutators of Spec, with createJunctionNode and  *)
(* clear, over at most MaxIdCalls calls.                                   *)
(***************************************************************************)
MaxIdCalls == 3

\* createJunctionNode with the counter left where it was.
createJunctionNodeStale(m, px, py, existing_wire) ==
    IF existing_wire = 0 THEN Outcome("createJunctionNode", m, FALSE, NoMerge)
    ELSE Outcome("createJunctionNode",
                 [m EXCEPT !.used_nodes = @ \cup {m.next_node_id},
                           !.junctions = Append(@, Junction(m.next_node_id, px, py,
                                                    <<m.wires[existing_wire].id>>))],
                 TRUE, NoMerge)

\* CircuitManager::createJunctionNode; existing_wire indexes wires, 0 for
\* nullptr.  The outcome's ret tells whether a node was made (not -1).
createJunctionNode(m, px, py, existing_wire) ==
    IF existing_wire = 0 THEN Outcome("createJunctionNode", m, FALSE, NoMerge)
    ELSE Outcome("createJunctionNode",
                 [m EXCEPT !.next_node_id = @ + 1,
                           !.used_nodes = @ \cup {m.next_node_id},
                           !.junctions = Append(@, Junction(m.next_node_id, px, py,
                                                    <<m.wires[existing_wire].id>>))],
                 TRUE, NoMerge)

\* clear without the loop that resets the name-prefix counters.
clearKeepingCounters(m) ==
    [m EXCEPT !.components = <<>>,
              !.wires = <<>>,
              !.junctions = <<>>,
              !.used_nodes = {0},
              !.next_node_id = 1]

\* CircuitManager::clear
clear(m) ==
    [m EXCEPT !.components = <<>>,
              !.wires = <<>>,
              !.junctions = <<>>,
              !.used_nodes = {0},
              !.component_counters = [prefix \in DOMAIN @ |-> 0],
              !.next_node_id = 1]

\* A call is made while fewer than MaxIdCalls were.
CallForIds ==
    /\ Running
    /\ calls < MaxIdCalls
    /\ calls' = calls + 1

ConnectPinsForIds == calls < MaxIdCalls /\ ConnectPins

ConnectToGroundForIds == calls < MaxIdCalls /\ ConnectToGround

ConnectToWireForIds == calls < MaxIdCalls /\ ConnectToWire

CreateJunctionNode ==
    /\ CallForIds
    /\ \E existing_wire \in 0..Len(wires) : \E jp \in JunctionPoints :
        Apply(createJunctionNode(Manager, jp[1], jp[2], existing_wire))

Clear ==
    /\ CallForIds
    /\ Apply(Outcome("clear", clear(Manager), TRUE, NoMerge))

NextIds ==
    \/ AddComponent
    \/ ConnectPinsForIds
    \/ ConnectToGroundForIds
    \/ ConnectToWireForIds
    \/ CreateJunctionNode
    \/ Clear

SpecIds == Init /\ [][NextIds]_vars

\* C20: no pin carries a node id greater than or equal to next_node_id,
\* and next_node_id is strictly greater than every id in used_nodes.
C20_IdsBelowNextNodeId ==
    /\ \A c \in 1..Len(components) : \A i \in 1..Len(components[c].pins) :
        components[c].pins[i] < next_node_id
    /\ \A node \in used_nodes : node < next_node_id

\* Ids were allocated by connectPins and by createJunctionNode: a pin
\* carries one, a junction the last one made.
C20_IdsAllocated ==
    /\ next_node_id >= 3
    /\ \E c \in 1..Len(components) : \E i \in 1..Len(components[c].pins) :
        components[c].pins[i] >= 1
    /\ \E k \in 1..Len(junctions) : junctions[k].node_id = next_node_id - 1

\* C21: after clear() the component, wire and junction lists are empty,
\* used_nodes is exactly {0}, next_node_id is 1 and every name-prefix
\* counter is 0; the manager then behaves like a fresh one: the first
\* component added is named R1 and the first fresh node is 1.
C21_ClearResetsManager ==
    /\ last.op = "clear"
        => /\ components = <<>>
           /\ wires = <<>>
           /\ junctions = <<>>
           /\ used_nodes = {0}
           /\ next_node_id = 1
           /\ \A prefix \in DOMAIN component_counters :
                component_counters[prefix] = 0
    /\ (last.op = "addComponent" /\ Len(components) = 1)
        => components[1].name = <<"R", 1>>
    /\ (wires = <<>> /\ junctions = <<>>)
        => /\ next_node_id = 1
           /\ \A c \in 1..Len(components) : \A i \in 1..Len(components[c].pins) :
                components[c].pins[i] \in {-1, 0}

\* clear() was called on a manager that held wires, and a resistor has
\* been added since.
C21_ClearedAndRefilled ==
    /\ next_wire > 1
    /\ wires = <<>>
    /\ last.op = "addComponent"
    /\ Len(components) = 1

(***************************************************************************)
(* Rotation of a placed component: CircuitElement::rotate90 and            *)
(* CircuitElement::setRotation, as the editor calls them on one element.   *)
(* Pin offsets are held in the program's units here.                       *)
(***************************************************************************)
MaxRotations == 4

\* struct Pin; a pin of a rotated element carries its name and its offset.
Pin(name, px, py) == [name |-> name, node_id |-> -1, rel_x |-> px, rel_y |-> py]

\* The pins the constructors of Resistor and OpAmp make.
ConstructedPins(type) ==
    IF type = "resistor"
    THEN <<Pin("pin1", -20, 0), Pin("pin2", 20, 0)>>
    ELSE <<Pin("non_inv", -25, -10), Pin("inv", -25, 10),
           Pin("output", 25, 0), Pin("vcc", 0, -20)>>

RotatedTypes == {"resistor", "opamp"}

\* The angles the editor passes to setRotation: preview_rotation when the
\* component is placed, 0 from the reset button afterwards.
Rotations == {0, 90, 180, 270}

\* One arm of the switch of updatePinPositions, applied to one pin.
TurnPin(pin, rotation) ==
    IF rotation = 90
    THEN [pin EXCEPT !.rel_x = -pin.rel_y, !.rel_y = pin.rel_x]
    ELSE IF rotation = 180
    THEN [pin EXCEPT !.rel_x = -pin.rel_x, !.rel_y = -pin.rel_y]
    ELSE IF rotation = 270
    THEN [pin EXCEPT !.rel_x = pin.rel_y, !.rel_y = -pin.rel_x]
    ELSE pin

\* CircuitElement::updatePinPositions: the current offsets of the pins are
\* turned by the element's rotation.
updatePinPositions(comp) ==
    IF comp.rotation = 0 THEN comp
    ELSE [comp EXCEPT !.pins = [i \in DOMAIN comp.pins |-> TurnPin(comp.pins[i], comp.rotation)]]

rotate90(comp) ==
    updatePinPositions([comp EXCEPT !.rotation = (comp.rotation + 90) % 360])

setRotation(comp, rot) ==
    updatePinPositions([comp EXCEPT !.rotation = rot % 360])

\* An element as the editor placed it, its pins on the nodes given.
PlacedElement(type, nodes) ==
    [type |-> type, rotation |-> 0,
     pins |-> [i \in DOMAIN ConstructedPins(type) |->
                 [ConstructedPins(type)[i] EXCEPT !.node_id = nodes[i]]]]

InitRotate ==
    /\ \E type \in RotatedTypes :
       \E nodes \in [DOMAIN ConstructedPins(type) -> {-1, 0, 1}] :
           components = <<PlacedElement(type, nodes)>>
    /\ wires = <<>>
    /\ junctions = <<>>
    /\ component_counters = [p \in Prefixes |-> 0]
    /\ used_nodes = {0, 1}
    /\ next_node_id = 2
    /\ next_wire = 1
    /\ last = [op |-> "new", ret |-> TRUE, losing |-> -1, winner |-> -1]
    /\ calls = 0
    /\ IdleAnalysis
    /\ IdleParser

\* The editor rotates the element: comp' is what the call makes of it.
Rotated(op, comp) ==
    /\ calls' = calls + 1
    /\ components' = <<comp>>
    /\ last' = [last EXCEPT !.op = op]
    /\ UNCHANGED <<wires, junctions, component_counters, used_nodes,
                   next_node_id, next_wire, anVars, psVars>>

Rotate90 ==
    /\ calls < MaxRotations
    /\ Rotated("rotate90", rotate90(components[1]))

SetRotation ==
    /\ calls < MaxRotations
    /\ \E rot \in Rotations :
        /\ rot = 0 \/ last.op = "new"
        /\ Rotated("setRotation", setRotation(components[1], rot))

NextRotate ==
    \/ Rotate90
    \/ SetRotation

SpecRotate == InitRotate /\ [][NextRotate]_vars

\* The offset a constructed pin has after a turn by the angle given.
TurnedFromConstruction(type, i, rotation) == TurnPin(ConstructedPins(type)[i], rotation)

\* C22: the offset of every pin is the constructed offset turned by the
\* element's rotation: by 90*k mod 360 after k calls of rotate90, the
\* constructed offset itself after four calls or after setRotation(0);
\* no rotation changes the sequence of pins or their node ids.
C22_OffsetsFollowRotation ==
    /\ [](\A i \in DOMAIN components[1].pins :
            LET turned == TurnedFromConstruction(components[1].type, i, components[1].rotation)
            IN  /\ components[1].pins[i].rel_x = turned.rel_x
                /\ components[1].pins[i].rel_y = turned.rel_y)
    /\ [][\A i \in DOMAIN components[1].pins :
            /\ DOMAIN components'[1].pins = DOMAIN components[1].pins
            /\ components'[1].pins[i].name = components[1].pins[i].name
            /\ components'[1].pins[i].node_id = components[1].pins[i].node_id]_vars

(***************************************************************************)
(* Junction splits.  The two resistors and the ground symbol of Roster are *)
(* placed; the editor draws wires between the resistors, straight or       *)
(* routed through waypoints, ends a wire on an existing wire, and grounds  *)
(* pins.  Every point the editor passes is snapped to the grid.            *)
(***************************************************************************)
MaxSplits == 3

\* The wires the editor draws with connectPins: component, pin, component,
\* pin and the waypoints between.  R1 pin 2 is at (1, 0), R2 pin 1 at (3, 0).
DrawnWires ==
    { <<1, 1, 2, 0, <<>> >>,
      <<1, 1, 2, 0, << <<1, 2>>, <<3, 2>> >> >>,
      <<1, 0, 2, 1, <<>> >> }

\* The points at which a wire is ended on another: on the straight wires,
\* on the middle segment of the routed wire, on its first waypoint, on its
\* first segment, and off every wire.
SplitPoints == {<<2, 0>>, <<2, 2>>, <<1, 2>>, <<1, 1>>, <<2, 4>>}

\* The pins from which a wire is started that ends on another wire.
SplitPins == {<<2, 1>>, <<3, 0>>}

CallForSplits ==
    /\ Running
    /\ Len(components) = Len(Roster)
    /\ calls < MaxSplits
    /\ calls' = calls + 1

DrawWire ==
    /\ CallForSplits
    /\ \E d \in DrawnWires :
        Apply(connectPins(Manager, d[1], d[2], d[3], d[4], d[5]))

SplitAtPoint ==
    /\ CallForSplits
    /\ \E cp \in SplitPins : \E existing_wire \in 1..Len(wires) :
       \E jp \in SplitPoints :
        Apply(connectToWire(Manager, cp[1], cp[2], existing_wire, jp[1], jp[2]))

GroundNetworkPin ==
    /\ CallForSplits
    /\ \E component \in 1..2 : \E pin \in PinInputs :
        \/ Apply(connectToGround(Manager, component, pin, 3, 0, <<>>))
        \/ GroundingDereferencesNull(Manager, component, pin) /\ Crash

NextSplit ==
    \/ AddComponent
    \/ DrawWire
    \/ SplitAtPoint
    \/ GroundNetworkPin

SpecSplit == Init /\ [][NextSplit]_vars

\* The step is connectToWire(component, pin, existing_wire, jp) returning true.
Splits(component, pin, existing_wire, jp) ==
    /\ Returns(connectToWire(Manager, component, pin, existing_wire, jp[1], jp[2]))
    /\ last'.ret

\* The node the spec gives a junction connection.
SpecFinalNode(component, existing_wire) ==
    IF components[component].type = "ground" \/ wires[existing_wire].node_id = 0
    THEN 0
    ELSE wires[existing_wire].node_id

\* Whether a pin, a wire or a junction carries the node after the step.
CarriedAfter(node) ==
    \/ \E c \in 1..Len(components') : \E i \in 1..Len(components'[c].pins) :
        components'[c].pins[i] = node
    \/ \E k \in 1..Len(wires') : wires'[k].node_id = node
    \/ \E k \in 1..Len(junctions') : junctions'[k].node_id = node

\* C23: after a successful connect_to_wire(c, p, wire, jx, jy) the original
\* wire is gone from the wire list and the three wires source -> junction,
\* junction -> sink and c:p -> junction are in it, each on the final node;
\* c.pins[p] carries the final node; a junction at the point carries the
\* final node and lists exactly the three wires; the final node is 0 when
\* c is a ground component or the wire was on node 0, nothing being left
\* on the wire's former node, and the wire's node id otherwise.
C23_SplitMakesThreeWires ==
    [][\A cp \in SplitPins : \A existing_wire \in 1..Len(wires) : \A jp \in SplitPoints :
        Splits(cp[1], cp[2], existing_wire, jp) =>
            LET old == wires[existing_wire]
                final == SpecFinalNode(cp[1], existing_wire)
                n == Len(wires')
            IN  /\ \A k \in 1..n : wires'[k].id # old.id
                /\ n = Len(wires) + 2
                /\ wires'[n - 2].component1 = old.component1
                /\ wires'[n - 2].pin1 = old.pin1
                /\ wires'[n - 2].component2 = 0
                /\ wires'[n - 1].component1 = 0
                /\ wires'[n - 1].component2 = old.component2
                /\ wires'[n - 1].pin2 = old.pin2
                /\ wires'[n].component1 = cp[1]
                /\ wires'[n].pin1 = cp[2]
                /\ wires'[n].component2 = 0
                /\ \A k \in (n - 2)..n : wires'[k].node_id = final
                /\ components'[cp[1]].pins[cp[2] + 1] = final
                /\ \E j \in 1..Len(junctions') :
                    /\ <<junctions'[j].x, junctions'[j].y>> = jp
                    /\ junctions'[j].node_id = final
                    /\ junctions'[j].connected_wires
                        = <<wires'[n - 2].id, wires'[n - 1].id, wires'[n].id>>
                /\ (final = 0 /\ old.node_id # 0) => ~CarriedAfter(old.node_id)]_vars

\* A wire from the ground symbol was ended on a wire of a live node, whose
\* network went to node 0.
C23_SplitOnBothBranches ==
    /\ last.op = "connectToWire"
    /\ last.ret
    /\ last.losing >= 1
    /\ last.winner = 0
    /\ Len(junctions) >= 1
    /\ \E k \in 1..Len(wires) : wires[k].component1 = 3 /\ wires[k].component2 = 0

\* The points of a path other than the point given, in order.
Without(path, point) == SelectSeq(path, LAMBDA q : q # point)

\* C24: a junction split keeps the endpoints and the waypoints of the
\* original wire: the path of the source -> junction wire followed by the
\* path of the junction -> sink wire holds the points of the original
\* path, in their order, and besides them the junction point only,
\* whichever segment is split and also when the junction point is on a
\* waypoint.
C24_SplitPreservesPath ==
    [][\A cp \in SplitPins : \A existing_wire \in 1..Len(wires) : \A jp \in SplitPoints :
        Splits(cp[1], cp[2], existing_wire, jp) =>
            LET n == Len(wires')
            IN  Without(getCompletePath(components', wires'[n - 2])
                            \o getCompletePath(components', wires'[n - 1]), jp)
                    = Without(getCompletePath(components, wires[existing_wire]), jp)]_vars

\* C25: a connect_to_wire call that returns false leaves the connectivity
\* state as it was: when no segment of the wire is within tolerance of the
\* point, the pin's node id, the node ids of the pins, wires and junctions
\* of the wire's network and used_nodes are those of before the call.
C25_FailedSplitChangesNothing ==
    [][\A cp \in SplitPins : \A existing_wire \in 1..Len(wires) : \A jp \in SplitPoints :
        (/\ Returns(connectToWire(Manager, cp[1], cp[2], existing_wire, jp[1], jp[2]))
         /\ ~last'.ret)
            => NothingChanged]_vars

\* C26: after a junction split, connect_to_ground on a pin of the node of
\* the split completes normally and returns true, leaving every wire and
\* junction of that node on node 0: the wires a split produced, which have
\* no component at their junction end, cause no access to a missing
\* component while the node is grounded.
C26_GroundingAfterSplitCompletes ==
    /\ last.op # "crash"
    /\ (last.op = "connectToGround" /\ last.losing >= 1)
        => /\ last.ret
           /\ \A k \in 1..Len(wires) : wires[k].node_id # last.losing
           /\ \A k \in 1..Len(junctions) : junctions[k].node_id # last.losing

\* The identities of the Wire objects the manager holds.
HeldWires == {wires[k].id : k \in 1..Len(wires)}

\* C27: every wire in the incident set of a junction is a wire held in the
\* manager's wire list, also after a wire that is incident to a junction
\* was split again at another point.
C27_JunctionsListHeldWires ==
    \A j \in 1..Len(junctions) :
        \A i \in 1..Len(junctions[j].connected_wires) :
            junctions[j].connected_wires[i] \in HeldWires

(***************************************************************************)
(* Termination of the transient analysis.  The loop of solve() is          *)
(* deterministic: what a pass does is fixed by currentTime, x_prev and x   *)
(* (the settings and the elements never change), so a pass that goes on to *)
(* another pass with these three as they were is repeated without end.     *)
(***************************************************************************)
LoopState == <<currentTime, x_prev, x>>

\* C28: for every .tran directive with a step and a stop token the
\* transient analysis terminates, also when the step token is not a
\* positive number: no pass of the loop that is followed by another test
\* of the loop condition leaves the state of the loop as it found it.
C28_TransientTerminates ==
    [][(pc = "loop" /\ pc' = "loop") => LoopState' # LoopState]_vars

\* C29: no TimePoint of the results has a time greater than the stop time,
\* whatever the start, the stop and the positive step are, also when the
\* span is not a whole number of steps.
C29_NoPointBeyondStop ==
    \A k \in 1..Len(results) : ~LessD(settings.stopTime, results[k].time)

(***************************************************************************)
(* parseFile called again on the same SPICEParser object, as the editor    *)
(* does with its one parser each time a simulation is run.                 *)
(***************************************************************************)
MaxParses == 2

MaxNetlistLines == 2

GroundNames == {"0", "gnd", "ground"}

\* The lines of the netlists the editor writes to temp_circuit.cir.
NetlistPool ==
    {<<>>,
     <<<<"R", "1">>, <<"1">>, <<"2">>, <<"1", "k">>>>,
     <<<<"R", "5">>, <<"3">>, <<"0">>, <<"1", "k">>>>,
     <<<<"C", "1">>, <<"2">>, <<"0">>, <<"1", "u">>>>,
     <<<<"V", "1">>, <<"1">>, <<"0">>, <<"D", "C">>, <<"1", "0">>>>,
     <<<<".", "e", "n", "d">>>>}

Netlists == UNION {[1..n -> NetlistPool] : n \in 0..MaxNetlistLines}

\* The first parseFile call on a new parser, up to its loop.
InitReparse ==
    /\ InitManager
    /\ lines \in Netlists
    /\ parses = 1
    /\ current_line = 0
    /\ nodeMap = [name \in GroundNames |-> 0]
    /\ numNodes = 1
    /\ elements = <<>>
    /\ settings = <<>>
    /\ diagnostics = <<>>
    /\ analyses = <<>>
    /\ G = <<>>
    /\ b = <<>>
    /\ x = <<>>
    /\ x_prev = <<>>
    /\ command = <<>>
    /\ currentTime = <<>>
    /\ timeStep = 0
    /\ results = <<>>
    /\ pc = "parsing"
    /\ gaussOk = <<>>
    /\ solves = 0

\* parseFile up to its loop, on a parser that parsed before: the file is
\* loaded into a new tokenizer, the names of node 0 are assigned and
\* numNodes is set to 1; elements and the rest of nodeMap stay.
ParseFileAgain ==
    /\ pc = "parsed"
    /\ parses < MaxParses
    /\ parses' = parses + 1
    /\ lines' \in Netlists
    /\ current_line' = 0
    /\ nodeMap' = [name \in DOMAIN nodeMap \cup GroundNames |->
                     IF name \in GroundNames THEN 0 ELSE nodeMap[name]]
    /\ numNodes' = 1
    /\ pc' = "parsing"
    /\ UNCHANGED <<elements, settings, diagnostics, analyses, G, b, x, x_prev,
                   command, currentTime, timeStep, results, gaussOk, solves>>
    /\ UNCHANGED cmVars

NextReparse ==
    \/ SkipLine
    \/ ParseCommand
    \/ ParseComponent
    \/ ParseFileReturn
    \/ ParseFileAgain

SpecReparse == InitReparse /\ [][NextReparse]_vars

\* The component lines of the file loaded, in order.
ComponentLines == SelectSeq(lines, IsComponent)

\* The node names of the file loaded other than the names of node 0.
NamedNodes ==
    {Text(ToLower(ComponentLines[k][i])) : k \in 1..Len(ComponentLines), i \in 2..3}
        \ GroundNames

\* C30: after every parseFile call, a second call on the same object
\* included, the node count is 1 plus the number of distinct non-ground
\* node names of the file, every pin of every element is on a node below
\* the count, and the element list holds the elements of the file just
\* parsed and no other.
C30_ParseFileDescribesFile ==
    pc = "parsed"
        => /\ numNodes = 1 + Cardinality(NamedNodes)
           /\ \A k \in 1..Len(elements) :
                elements[k].n1 < numNodes /\ elements[k].n2 < numNodes
           /\ Len(elements) = Len(ComponentLines)
           /\ \A k \in 1..Len(elements) : elements[k].name = Text(ComponentLines[k][1])

====
